---- MODULE Spec2Model ----
(***************************************************************************)
(* LEO protocol: the per-connection session actor of the server            *)
(* (src/src/server/session.ts), the storage adapter it drives              *)
(* (Storage, with typed StorageError), the framing codec and AEAD blob     *)
(* layout (src/src/protocol.ts, src/src/cipher.ts) and the client engine   *)
(* (LeoClient).                                                            *)
(*                                                                         *)
(* Node's execution model is kept: a 'data' event handler runs to          *)
(* completion, promise reactions queued by it run before the next event,   *)
(* and every awaited filesystem call completes as a later, separately      *)
(* scheduled event.  Handlers are operators over a record S of the whole   *)
(* state, so that one action can thread several frames of one TCP chunk    *)
(* through them in order.                                                  *)
(***************************************************************************)
EXTENDS Integers, Sequences, FiniteSets, TLC

VARIABLES
    handshakeBuffer,    \* LeoSession.handshakeBuffer: text received before the handshake completed
    frameBuffer,        \* LeoSession.frameBuffer: bytes of the incomplete inbound frame
    handshakeComplete,  \* LeoSession.handshakeComplete
    authed,             \* LeoSession.authed
    clientToServerKey,  \* LeoSession.clientToServerKey (NoKey = null)
    serverToClientKey,  \* LeoSession.serverToClientKey (NoKey = null)
    sessionId,          \* LeoSession.sessionId ("" until the hello is accepted)
    ongoingUploads,     \* LeoSession.ongoingUploads: path -> {size, received}
    closed,             \* LeoSession.closed (set by the socket's 'close' event)
    handshakeTimeout,   \* the 10 s timer: "armed", "cleared" or "fired"
    socket,             \* the server's socket: "open", "ended" (end() called) or "destroyed"
    sent,               \* every socket.write of the session, in order
    tasks,              \* asynchronous storage calls awaiting a filesystem completion
    nextReq,            \* number of frames dispatched so far (tags tasks and replies)
    fs,                 \* the filesystem: absolute path -> directory or file entry
    inodes,             \* contents of the regular files, by inode
    fsLog,              \* every filesystem call issued, as <<call, absolute path, frame number>>
    reqLog,             \* the inbound frames dispatched so far, by frame number
    helloLog,           \* the lines handed to handleClientHello so far
    crashed,            \* the server process died on an uncaught exception
    appendMode,         \* the platform appends on a positional write to an O_APPEND handle
    peer,               \* the remote endpoint's script position and bookkeeping
    client,             \* the LeoClient at the other end, when the peer is one
    stream,             \* a byte stream of frames being decoded chunk by chunk
    box                 \* a LeoClient's waiters and message queue, with its callers

vars == <<handshakeBuffer, frameBuffer, handshakeComplete, authed, clientToServerKey,
          serverToClientKey, sessionId, ongoingUploads, closed, handshakeTimeout,
          socket, sent, tasks, nextReq, fs, inodes, fsLog, reqLog, helloLog, crashed, appendMode, peer,
          client, stream, box>>

-----------------------------------------------------------------------------
(* Bounds of the model *)

\* chunkSize of GET streaming and of the client's put, scaled down from 65536
ChunkSize == 2
\* inodes that can be live at once
MaxIno == 3
\* frames or handshake lines the remote endpoint sends on one connection
MaxItems == 4
\* socket writes recorded for one connection
MaxSent == 6
\* frames of one encoded byte stream
MaxFrames == 2
\* calls of nextMessage on one client, and messages it receives
MaxCalls == 3
MaxInbound == 3
\* replies a server sends to one GET_BEGIN
MaxReplies == 4

-----------------------------------------------------------------------------
(* Generic sequence helpers *)

Min(a, b) == IF a < b THEN a ELSE b
Max(a, b) == IF a > b THEN a ELSE b

\* String.prototype.startsWith on character sequences
StartsWith(s, prefix) ==
    /\ Len(prefix) <= Len(s)
    /\ SubSeq(s, 1, Len(prefix)) = prefix

Drop(s, n) == SubSeq(s, Min(n, Len(s)) + 1, Len(s))

RECURSIVE Flatten(_)
Flatten(ss) == IF ss = <<>> THEN <<>> ELSE Head(ss) \o Flatten(Tail(ss))

Repeat(x, n) == [i \in 1..n |-> x]

-----------------------------------------------------------------------------
(* Paths.  A path string is its list of '/'-separated segments plus a flag *)
(* for a leading '/'.  An absolute, normalised path is a list of names.    *)

\* the characters of each segment name
Chars(name) ==
    CASE name = "d"  -> <<"d">>
      [] name = "d2" -> <<"d", "2">>
      [] name = "e"  -> <<"e">>
      [] name = "f"  -> <<"f">>
      [] name = "g"  -> <<"g">>
      [] name = "s"  -> <<"s">>
      [] name = "m"  -> <<"m">>
      [] OTHER       -> <<name>>

\* the absolute path as a string: "/" for the filesystem root, else "/a/b"
PathString(abs) ==
    IF abs = <<>> THEN <<"/">>
    ELSE Flatten([i \in 1..Len(abs) |-> <<"/">> \o Chars(abs[i])])

\* lexical normalisation of path.resolve: "." and "" are dropped, ".." pops
\* (and is dropped at the filesystem root)
RECURSIVE Normalize(_, _)
Normalize(stack, segs) ==
    IF segs = <<>> THEN stack
    ELSE LET h == Head(segs) IN
         IF h = "." \/ h = "" THEN Normalize(stack, Tail(segs))
         ELSE IF h = ".." THEN
              Normalize(IF stack = <<>> THEN <<>> ELSE SubSeq(stack, 1, Len(stack) - 1),
                        Tail(segs))
         ELSE Normalize(Append(stack, h), Tail(segs))

\* path.resolve(base, p): an absolute p replaces base
PathResolve(base, p) ==
    IF p.abs THEN Normalize(<<>>, p.segs) ELSE Normalize(base, p.segs)

\* the storage root handed to new Storage(basePath)
BasePath == <<"d">>

\* path.dirname of an absolute normalised path
Dirname(abs) == IF abs = <<>> THEN <<>> ELSE SubSeq(abs, 1, Len(abs) - 1)

\* is abs the root or a descendant of it (segment-wise)
Inside(abs, root) == StartsWith(abs, root)

\* Storage.resolvePath: string-prefix test of the resolved path against the root
resolvePath(relativePath) ==
    LET resolved == PathResolve(BasePath, relativePath)
        safeRoot == PathResolve(BasePath, [abs |-> FALSE, segs |-> <<>>])
    IN  IF ~StartsWith(PathString(resolved), PathString(safeRoot))
        THEN [ok |-> FALSE, full |-> resolved]
        ELSE [ok |-> TRUE, full |-> resolved]

-----------------------------------------------------------------------------
(* The filesystem.  fs maps every existing absolute path to its entry;     *)
(* a regular file names the inode that holds its bytes, so that a handle   *)
(* opened before an unlink keeps reading and writing the orphaned inode.   *)
(* Every call takes the state record S and returns [S, err, val]; err is   *)
(* "" on success and the errno name otherwise.  S.blocked records that a   *)
(* call needed more inodes than the model has.                             *)

DirEntry == [t |-> "dir", ino |-> 0]
FileEntry(n) == [t |-> "file", ino |-> n]

Exists(S, p) == p \in DOMAIN S.fs
IsDir(S, p) == Exists(S, p) /\ S.fs[p].t = "dir"
IsFile(S, p) == Exists(S, p) /\ S.fs[p].t = "file"

\* some proper ancestor of p is a regular file
FileAncestor(S, p) == \E k \in 0..(Len(p) - 1) : IsFile(S, SubSeq(p, 1, k))

\* errno of a lookup of p whose parent chain is broken, "" when p can be created or exists
LookupErr(S, p) ==
    IF FileAncestor(S, p) THEN "ENOTDIR"
    ELSE IF ~Exists(S, Dirname(p)) THEN "ENOENT"
    ELSE ""

UsedInos(S) ==
    ({S.fs[p].ino : p \in {q \in DOMAIN S.fs : S.fs[q].t = "file"}}
        \cup {t.ino : t \in S.tasks}) \ {0}

HasFreshIno(S) == \E n \in 1..MaxIno : n \notin UsedInos(S)
FreshIno(S) == CHOOSE n \in 1..MaxIno : n \notin UsedInos(S) /\ \A m \in 1..(n - 1) : m \in UsedInos(S)

\* contents of inodes nobody refers to any more are dropped
Gc(S) == [S EXCEPT !.inodes = [n \in 1..MaxIno |-> IF n \in UsedInos(S) THEN S.inodes[n] ELSE <<>>]]

Logged(S, call, p) == [S EXCEPT !.fsLog = @ \cup {<<call, p, S.cur>>}]

Ok(S, v) == [S |-> S, err |-> "", val |-> v]
Fail(S, e) == [S |-> S, err |-> e, val |-> 0]

\* fs/promises mkdir(dir, {recursive: true})
RECURSIVE MkdirFrom(_, _, _)
MkdirFrom(S, dir, k) ==
    IF k > Len(dir) THEN Ok(S, 0)
    ELSE LET p == SubSeq(dir, 1, k) IN
         IF IsFile(S, p) THEN Fail(S, IF k = Len(dir) THEN "EEXIST" ELSE "ENOTDIR")
         ELSE IF IsDir(S, p) THEN MkdirFrom(S, dir, k + 1)
         ELSE MkdirFrom([S EXCEPT !.fs = (p :> DirEntry) @@ @], dir, k + 1)
SysMkdir(S0, dir) == MkdirFrom(Logged(S0, "mkdir", dir), dir, 1)

\* fs/promises stat(p): val is [isFile, size]
SysStat(S0, p) ==
    LET S == Logged(S0, "stat", p) IN
    IF ~Exists(S, p) THEN Fail(S, IF FileAncestor(S, p) THEN "ENOTDIR" ELSE "ENOENT")
    ELSE IF IsDir(S, p) THEN Ok(S, [isFile |-> FALSE, size |-> 0])
    ELSE Ok(S, [isFile |-> TRUE, size |-> Len(S.inodes[S.fs[p].ino])])

\* fs/promises writeFile(p, data): open with O_CREAT|O_TRUNC, write data
SysWriteFile(S0, p, data) ==
    LET S == Logged(S0, "writeFile", p) IN
    IF LookupErr(S, p) # "" THEN Fail(S, LookupErr(S, p))
    ELSE IF IsDir(S, p) THEN Fail(S, "EISDIR")
    ELSE IF IsFile(S, p) THEN Ok([S EXCEPT !.inodes[S.fs[p].ino] = data], 0)
    ELSE IF ~HasFreshIno(S) THEN Fail([S EXCEPT !.blocked = TRUE], "ENOSPC")
    ELSE LET n == FreshIno(S) IN
         Ok([S EXCEPT !.fs = (p :> FileEntry(n)) @@ @, !.inodes[n] = data], 0)

\* fs/promises open(p, "a+"): O_APPEND|O_CREAT|O_RDWR, val is the handle's inode
SysOpenAppend(S0, p) ==
    LET S == Logged(S0, "open", p) IN
    IF LookupErr(S, p) # "" THEN Fail(S, LookupErr(S, p))
    ELSE IF IsDir(S, p) THEN Fail(S, "EISDIR")
    ELSE IF IsFile(S, p) THEN Ok(S, S.fs[p].ino)
    ELSE IF ~HasFreshIno(S) THEN Fail([S EXCEPT !.blocked = TRUE], "ENOSPC")
    ELSE LET n == FreshIno(S) IN
         Ok([S EXCEPT !.fs = (p :> FileEntry(n)) @@ @, !.inodes[n] = <<>>], n)

\* fs/promises open(p, "r"): O_RDONLY, val is the handle's inode (0 for a directory)
SysOpenRead(S0, p) ==
    LET S == Logged(S0, "open", p) IN
    IF ~Exists(S, p) THEN Fail(S, IF FileAncestor(S, p) THEN "ENOTDIR" ELSE "ENOENT")
    ELSE Ok(S, S.fs[p].ino)

\* bytes of old with data placed at offset, zero-filled when offset is past the end
WriteAtOffset(old, data, offset) ==
    LET n == Max(Len(old), offset + Len(data)) IN
    [i \in 1..n |->
        IF i > offset /\ i <= offset + Len(data) THEN data[i - offset]
        ELSE IF i <= Len(old) THEN old[i]
        ELSE 0]

\* handle.write(data, 0, data.length, offset) on an O_APPEND handle: the platform
\* either honours the position (POSIX pwrite) or appends at the end (Linux)
SysWriteAppendHandle(S0, p, ino, data, offset) ==
    LET S == Logged(S0, "write", p)
        old == S.inodes[ino]
    IN  Ok([S EXCEPT !.inodes[ino] =
                IF S.appendMode THEN old \o data ELSE WriteAtOffset(old, data, offset)], 0)

\* handle.read(buffer, 0, length, offset): val is the bytes read
SysRead(S0, p, ino, offset, length) ==
    LET S == Logged(S0, "read", p) IN
    IF ino = 0 THEN Fail(S, "EISDIR")
    ELSE Ok(S, SubSeq(S.inodes[ino], offset + 1, Min(offset + length, Len(S.inodes[ino]))))

\* the lexical order directory entries are returned in
NameOrder == <<"d", "d2", "e", "f", "g", "m", "s">>

\* fs/promises readdir(p, {withFileTypes: true}): val is the list of child names
SysReaddir(S0, p) ==
    LET S == Logged(S0, "readdir", p) IN
    IF ~Exists(S, p) THEN Fail(S, IF FileAncestor(S, p) THEN "ENOTDIR" ELSE "ENOENT")
    ELSE IF IsFile(S, p) THEN Fail(S, "ENOTDIR")
    ELSE Ok(S, SelectSeq(NameOrder, LAMBDA n : Exists(S, Append(p, n))))

\* fs/promises rm(p) without force or recursive
SysRm(S0, p) ==
    LET S == Logged(S0, "rm", p) IN
    IF ~Exists(S, p) THEN Fail(S, IF FileAncestor(S, p) THEN "ENOTDIR" ELSE "ENOENT")
    ELSE IF IsDir(S, p) THEN Fail(S, "ERR_FS_EISDIR")
    ELSE Ok([S EXCEPT !.fs = [q \in DOMAIN S.fs \ {p} |-> S.fs[q]]], 0)

\* Storage.wrapFsError: errno -> StorageError code
wrapFsError(code) ==
    IF code \in {"INVALID_PATH", "NOT_A_FILE", "FILE_NOT_FOUND", "PERMISSION_DENIED", "IO_ERROR"}
    THEN code
    ELSE IF code = "ENOENT" THEN "FILE_NOT_FOUND"
    ELSE IF code \in {"EACCES", "EPERM"} THEN "PERMISSION_DENIED"
    ELSE "IO_ERROR"

StorageCodes == {"INVALID_PATH", "NOT_A_FILE", "FILE_NOT_FOUND", "PERMISSION_DENIED", "IO_ERROR"}

mapStorageErrorMutantDefault(code) ==
    IF code = "INVALID_PATH" THEN code ELSE "IO_ERROR"

\* LeoSession.mapStorageError: a StorageError keeps its code, anything else
\* (an errno that reached the session unwrapped) is INTERNAL_ERROR
mapStorageError(code) ==
    IF code \in StorageCodes THEN code ELSE "INTERNAL_ERROR"

-----------------------------------------------------------------------------
(* Base64.  A base64 string is its list of sextets 0..63, 64 standing for  *)
(* the padding character '='.                                              *)

Pad == 64

RECURSIVE Base64Encode(_)
\* Buffer.toString("base64")
Base64Encode(bytes) ==
    IF bytes = <<>> THEN <<>>
    ELSE IF Len(bytes) = 1 THEN
        <<bytes[1] \div 4, (bytes[1] % 4) * 16, Pad, Pad>>
    ELSE IF Len(bytes) = 2 THEN
        <<bytes[1] \div 4, (bytes[1] % 4) * 16 + bytes[2] \div 16, (bytes[2] % 16) * 4, Pad>>
    ELSE <<bytes[1] \div 4,
           (bytes[1] % 4) * 16 + bytes[2] \div 16,
           (bytes[2] % 16) * 4 + bytes[3] \div 64,
           bytes[3] % 64>> \o Base64Encode(SubSeq(bytes, 4, Len(bytes)))

RECURSIVE Base64Sextets(_)
\* the sextets up to the first padding character
Base64Sextets(str) ==
    IF str = <<>> \/ Head(str) = Pad THEN <<>>
    ELSE <<Head(str)>> \o Base64Sextets(Tail(str))

RECURSIVE Base64DecodeSextets(_)
Base64DecodeSextets(x) ==
    IF Len(x) < 2 THEN <<>>
    ELSE IF Len(x) = 2 THEN <<x[1] * 4 + x[2] \div 16>>
    ELSE IF Len(x) = 3 THEN <<x[1] * 4 + x[2] \div 16, (x[2] % 16) * 16 + x[3] \div 4>>
    ELSE <<x[1] * 4 + x[2] \div 16,
           (x[2] % 16) * 16 + x[3] \div 4,
           (x[3] % 4) * 64 + x[4]>> \o Base64DecodeSextets(SubSeq(x, 5, Len(x)))

\* Buffer.from(str, "base64")
Base64Decode(str) == Base64DecodeSextets(Base64Sextets(str))

-----------------------------------------------------------------------------
(* Messages.  A JSON value is a record with every field of the schema;     *)
(* has is the set of fields the object really carries, kind tells objects  *)
(* from the other JSON values.                                             *)

NoPath == [abs |-> FALSE, segs |-> <<>>]

Blank ==
    [kind |-> "object", has |-> {}, type |-> "", username |-> "", password |-> "",
     path |-> NoPath, size |-> 0, offset |-> 0, data |-> <<>>,
     version |-> 0, cipher |-> "", kex |-> "", clientPublicKey |-> ""]

\* a JSON text: json is FALSE for text JSON.parse rejects
NoText == [json |-> FALSE, v |-> Blank]
JsonText(v) == [json |-> TRUE, v |-> v]

\* one byte of the TCP stream.  b is its numeric value; a byte of AEAD output
\* also carries the key it was produced under and, for ciphertext, the
\* plaintext it stands for
Byte(n) == [b |-> n, k |-> "", pt |-> NoText]
Bytes(ns) == [i \in 1..Len(ns) |-> Byte(ns[i])]
Newline == Byte(10)
\* the UTF-8 text of a JSON document, as one unit starting with '{'
TextUnit(text) == [b |-> 123, k |-> "", pt |-> text]

NoKey == "null"

\* the model's keys: the two halves of the HKDF output, and a key of another session
C2S == "c2s"
S2C == "s2c"
OtherKey == "other"

\* a derivation that hands out the first 32 bytes for both directions
deriveSessionKeysMutantOneKey(goodSecret) ==
    [clientToServerKey |-> IF goodSecret THEN C2S ELSE OtherKey,
     serverToClientKey |-> IF goodSecret THEN C2S ELSE OtherKey]

\* deriveSessionKeys: the first and the second 32 bytes of the 64-byte output
deriveSessionKeys(goodSecret) ==
    [clientToServerKey |-> IF goodSecret THEN C2S ELSE OtherKey,
     serverToClientKey |-> IF goodSecret THEN S2C ELSE OtherKey]

NonceLen == 12
TagLen == 16

\* the largest frame length a receiver accepts (16 MiB)
MaxFrameLength == 16777216

\* encryptAesGcm(key, plaintext): nonce(12) || ciphertext || tag(16)
encryptAesGcm(key, plaintext) ==
    Repeat([b |-> 0, k |-> "", pt |-> NoText], NonceLen)
        \o <<[b |-> 0, k |-> key, pt |-> plaintext]>>
        \o Repeat([b |-> 1, k |-> key, pt |-> NoText], TagLen)

\* decryptAesGcm(key, data): throws (ok = FALSE) on a short blob or a failed tag check
decryptAesGcm(key, data) ==
    IF Len(data) < 28 THEN [ok |-> FALSE, plaintext |-> NoText]
    ELSE LET tag == SubSeq(data, Len(data) - 16 + 1, Len(data))
             ciphertext == SubSeq(data, 12 + 1, Len(data) - 16)
             authentic == /\ \A i \in 1..Len(tag) : tag[i].k = key /\ tag[i].b = 1
                          /\ \A i \in 1..Len(ciphertext) : ciphertext[i].k = key
         IN  IF ~authentic THEN [ok |-> FALSE, plaintext |-> NoText]
             ELSE [ok |-> TRUE,
                   plaintext |-> IF Len(ciphertext) = 1 THEN ciphertext[1].pt ELSE NoText]

\* Buffer.writeUInt32BE / readUInt32BE
UInt32BE(n) ==
    <<(n \div 16777216) % 256, (n \div 65536) % 256, (n \div 256) % 256, n % 256>>
ReadUInt32BE(buffer, offset) ==
    buffer[offset + 1].b * 16777216 + buffer[offset + 2].b * 65536
        + buffer[offset + 3].b * 256 + buffer[offset + 4].b

\* encodeFrame(payload)
encodeFrame(payload) == Bytes(UInt32BE(Len(payload))) \o payload

\* encodeJsonLine(value): JSON.stringify(value) + "\n"
encodeJsonLine(value) == <<TextUnit(JsonText(value)), Newline>>

RECURSIVE ConsumeFrom(_, _, _)
ConsumeFrom(buffer, offset, frames) ==
    IF Len(buffer) - offset < 4 THEN [frames |-> frames, remaining |-> Drop(buffer, offset)]
    ELSE LET length == ReadUInt32BE(buffer, offset) IN
         IF Len(buffer) - offset - 4 < length
         THEN [frames |-> frames, remaining |-> Drop(buffer, offset)]
         ELSE ConsumeFrom(buffer, offset + 4 + length,
                          Append(frames, SubSeq(buffer, offset + 4 + 1, offset + 4 + length)))

\* a decoder that forgets the bytes of a length prefix cut by the end of the chunk
consumeFramesMutantDropsPrefix(buffer) ==
    LET r == ConsumeFrom(buffer, 0, <<>>) IN
    [frames |-> r.frames,
     remaining |-> IF Len(r.remaining) < 4 THEN <<>> ELSE r.remaining]
\* consumeFrames(buffer): the complete frames and the remainder
consumeFrames(buffer) == ConsumeFrom(buffer, 0, <<>>)

\* no stream is being decoded
StreamOff ==
    [payloads |-> <<>>, wire |-> <<>>, buffer |-> <<>>, frames |-> <<>>,
     splitPrefix |-> FALSE, splitPayload |-> FALSE]

-----------------------------------------------------------------------------
(* The session actor: LeoSession.                                          *)
(* S.cur is the number of the inbound frame whose handler (or whose        *)
(* asynchronous continuation) is running; it tags what the handler sends   *)
(* and starts.  S.micro is the queue of promise reactions the running      *)
(* event has scheduled.                                                    *)

\* the credentials the server was started with
Credentials == [username |-> "user", password |-> "pass"]

\* the process-wide ServerInfo record built by startServer
ServerInfo ==
    [version |-> "1.0.0", protocolVersion |-> 1,
     capabilities |-> <<"AUTH", "PUT", "GET", "LIST", "DEL", "INFO", "BYE">>,
     storageRoot |-> BasePath]

\* socket.destroy(): no further 'data' event, 'close' is emitted later
Destroy(S) == [S EXCEPT !.socket = "destroyed"]

\* an exception nobody catches leaves the 'data' listener: the process dies and
\* the operating system closes its sockets
Uncaught(S) == [S EXCEPT !.crashed = TRUE, !.socket = "destroyed"]

\* socket.write(bytes); delivered tells whether the socket could still carry it
SocketWrite(S, entry) ==
    [S EXCEPT !.sent = Append(@, [kind |-> entry.kind, key |-> entry.key, msg |-> entry.msg,
                                  req |-> S.cur, delivered |-> S.socket = "open"])]

\* LeoSession.sendMessage
sendMessage(S, message) ==
    IF S.serverToClientKey = NoKey \/ ~S.handshakeComplete THEN S
    ELSE SocketWrite(S, [kind |-> "frame", key |-> S.serverToClientKey, msg |-> message])

\* the human-readable message of each error
MessageOf(errorCode) ==
    CASE errorCode = "INVALID_PATH" -> "Chemin en dehors de la racine autorisee"
      [] errorCode = "FILE_NOT_FOUND" -> "Fichier introuvable"
      [] errorCode = "PERMISSION_DENIED" -> "Acces refuse"
      [] errorCode = "NOT_A_FILE" -> "Le chemin vise n'est pas un fichier"
      [] errorCode = "UNAUTHORIZED" -> "Authentification requise"
      [] errorCode = "INVALID_MESSAGE" -> "Message illisible"
      [] errorCode = "UPLOAD_NOT_INITIALIZED" -> "PUT_BEGIN manquant"
      [] errorCode = "INVALID_COMMAND" -> "Commande inconnue"
      [] OTHER -> "err.message"

\* LeoSession.sendError: details is undefined and dropped by JSON.stringify
sendError(S, errorCode, message) ==
    sendMessage(S, [type |-> "ERROR", error |-> message, errorCode |-> errorCode,
                    message |-> message])

\* a session that only logs a failed storage operation
sendStorageErrorMutantLogsOnly(S, code) == S

\* LeoSession.sendStorageError, err given by its code
sendStorageError(S, code) ==
    sendError(S, mapStorageError(code), MessageOf(mapStorageError(code)))

ensureAuthMutantOpen(S, message) == [ok |-> TRUE, S |-> S]

\* LeoSession.ensureAuth
ensureAuth(S, message) ==
    IF S.authed THEN [ok |-> TRUE, S |-> S]
    ELSE IF message.type = "AUTH" THEN [ok |-> TRUE, S |-> S]
    ELSE [ok |-> FALSE, S |-> sendError(S, "UNAUTHORIZED", "Authentification requise")]

\* a session whose failed AUTH logs the session out
handleAuthMutantRevokes(S, message) ==
    LET ok == /\ "username" \in message.has /\ message.username = Credentials.username
              /\ "password" \in message.has /\ message.password = Credentials.password
    IN  IF ok THEN sendMessage([S EXCEPT !.authed = TRUE], [type |-> "AUTH_OK"])
        ELSE sendMessage([S EXCEPT !.authed = FALSE],
                         [type |-> "AUTH_ERROR", error |-> "Invalid credentials",
                          errorCode |-> "AUTH_INVALID_CREDENTIALS",
                          message |-> "Identifiants invalides"])

handleAuthMutantUserOnly(S, message) ==
    IF "username" \in message.has /\ message.username = Credentials.username
    THEN sendMessage([S EXCEPT !.authed = TRUE], [type |-> "AUTH_OK"])
    ELSE sendMessage(S, [type |-> "AUTH_ERROR", error |-> "Invalid credentials",
                         errorCode |-> "AUTH_INVALID_CREDENTIALS",
                         message |-> "Identifiants invalides"])

\* LeoSession.handleAuth
handleAuth(S, message) ==
    LET ok == /\ "username" \in message.has /\ message.username = Credentials.username
              /\ "password" \in message.has /\ message.password = Credentials.password
    IN  IF ok THEN sendMessage([S EXCEPT !.authed = TRUE], [type |-> "AUTH_OK"])
        ELSE sendMessage(S, [type |-> "AUTH_ERROR", error |-> "Invalid credentials",
                             errorCode |-> "AUTH_INVALID_CREDENTIALS",
                             message |-> "Identifiants invalides"])

\* a storage call waiting for the completion of the filesystem call named by pc
Task(kind, S, path, full, pc) ==
    [kind |-> kind, req |-> S.cur, path |-> path, full |-> full, pc |-> pc,
     offset |-> 0, size |-> 0, data |-> <<>>, ino |-> 0, items |-> <<>>, acc |-> <<>>]

AddTask(S, t) == [S EXCEPT !.tasks = @ \cup {t}]
DropTask(S, t) == [S EXCEPT !.tasks = @ \ {t}]
ReplaceTask(S, t, u) == [S EXCEPT !.tasks = (@ \ {t}) \cup {u}]

\* a promise rejected before any filesystem call was issued: its handler runs
\* as a promise reaction, after the given number of queue turns
Reject(S, kind, path, code, ticks) ==
    [S EXCEPT !.micro = Append(@, [req |-> S.cur, kind |-> kind, path |-> path,
                                   code |-> code, ticks |-> ticks])]

\* the key of a message's path in ongoingUploads, and the path as a reply carries it
PathOf(message) == IF "path" \in message.has THEN message.path
                   ELSE [abs |-> FALSE, segs |-> <<"undefined">>]

\* path.resolve throws a TypeError for a path that is not a string
Resolve(message) ==
    IF "path" \notin message.has THEN [ok |-> FALSE, full |-> <<>>, code |-> "TypeError"]
    ELSE [ok |-> resolvePath(message.path).ok, full |-> resolvePath(message.path).full,
          code |-> "INVALID_PATH"]

\* LeoSession.handlePutBegin, up to the first await of Storage.writeWholeFile
handlePutBegin(S, message) ==
    LET S1 == [S EXCEPT !.ongoingUploads =
                   (PathOf(message) :> [size |-> message.size, received |-> 0]) @@ @]
        r == Resolve(message)
    IN  IF ~r.ok THEN Reject(S1, "ERROR", PathOf(message), r.code, 2)
        ELSE AddTask(S1, Task("PUT_BEGIN", S1, PathOf(message), r.full, "mkdir"))

\* a handler that writes a chunk whether or not an upload was begun
handlePutChunkMutantNoBeginNeeded(S, message) ==
    IF "data" \notin message.has THEN Uncaught(S)
    ELSE LET chunk == Base64Decode(message.data)
             r == Resolve(message)
         IN  IF ~r.ok THEN Reject(S, "ERROR", PathOf(message), r.code, 1)
             ELSE AddTask(S, [Task("PUT_CHUNK", S, PathOf(message), r.full, "mkdir")
                                 EXCEPT !.data = chunk, !.offset = message.offset])
\* a handler that forgets the upload once a chunk was received for it
handlePutChunkMutantEndsUpload(S, message) ==
    IF PathOf(message) \notin DOMAIN S.ongoingUploads
    THEN sendError(S, "UPLOAD_NOT_INITIALIZED", "PUT_BEGIN manquant")
    ELSE IF "data" \notin message.has THEN Uncaught(S)
    ELSE LET chunk == Base64Decode(message.data)
             S1 == [S EXCEPT !.ongoingUploads =
                        [q \in DOMAIN @ \ {PathOf(message)} |-> @[q]]]
             r == Resolve(message)
         IN  IF ~r.ok THEN Reject(S1, "ERROR", PathOf(message), r.code, 1)
             ELSE AddTask(S1, [Task("PUT_CHUNK", S1, PathOf(message), r.full, "mkdir")
                                  EXCEPT !.data = chunk, !.offset = message.offset])
\* LeoSession.handlePutChunk, up to the first await of Storage.writeChunk
handlePutChunk(S, message) ==
    IF PathOf(message) \notin DOMAIN S.ongoingUploads
    THEN sendError(S, "UPLOAD_NOT_INITIALIZED", "PUT_BEGIN manquant")
    ELSE IF "data" \notin message.has THEN Uncaught(S)
    ELSE LET chunk == Base64Decode(message.data)
             S1 == [S EXCEPT !.ongoingUploads[PathOf(message)].received = @ + Len(chunk)]
             r == Resolve(message)
         IN  IF ~r.ok THEN Reject(S1, "ERROR", PathOf(message), r.code, 1)
             ELSE AddTask(S1, [Task("PUT_CHUNK", S1, PathOf(message), r.full, "mkdir")
                                  EXCEPT !.data = chunk, !.offset = message.offset])

\* a handler that refuses to end an upload whose byte count is not the declared size
handlePutEndMutantChecksSize(S, message) ==
    IF PathOf(message) \in DOMAIN S.ongoingUploads
       /\ S.ongoingUploads[PathOf(message)].received # S.ongoingUploads[PathOf(message)].size
    THEN sendError(S, "INVALID_MESSAGE", "Taille incorrecte")
    ELSE sendMessage([S EXCEPT !.ongoingUploads =
                          [q \in DOMAIN @ \ {PathOf(message)} |-> @[q]]],
                     [type |-> "PUT_OK", path |-> PathOf(message)])
\* LeoSession.handlePutEnd
handlePutEnd(S, message) ==
    sendMessage([S EXCEPT !.ongoingUploads =
                     [q \in DOMAIN @ \ {PathOf(message)} |-> @[q]]],
                [type |-> "PUT_OK", path |-> PathOf(message)])

\* LeoSession.handleGetBegin, up to the first await of Storage.fileSize
handleGetBegin(S, message) ==
    LET r == Resolve(message) IN
    IF ~r.ok THEN Reject(S, "ERROR", PathOf(message), r.code, 1)
    ELSE AddTask(S, Task("GET", S, PathOf(message), r.full, "stat"))

\* LeoSession.handleList, up to the first await of Storage.list
handleList(S, message) ==
    LET r == Resolve(message) IN
    IF ~r.ok THEN Reject(S, "ERROR", PathOf(message), r.code, 1)
    ELSE AddTask(S, Task("LIST", S, PathOf(message), r.full, "readdir"))

\* LeoSession.handleDel, up to the first await of Storage.deleteFile
handleDel(S, message) ==
    LET r == Resolve(message) IN
    IF ~r.ok THEN Reject(S, "DEL_ERROR", PathOf(message), r.code, 1)
    ELSE AddTask(S, Task("DEL", S, PathOf(message), r.full, "stat"))

\* a handler that leaves DEL out of the capabilities it reports
handleInfoMutantNoDel(S, message) ==
    sendMessage(S, [type |-> "INFO_RESULT", version |-> ServerInfo.version,
                    protocolVersion |-> ServerInfo.protocolVersion,
                    capabilities |-> SelectSeq(ServerInfo.capabilities, LAMBDA c : c # "DEL"),
                    storageRoot |-> ServerInfo.storageRoot])
\* LeoSession.handleInfo: maxUploadSize is undefined and dropped by JSON.stringify
handleInfo(S, message) ==
    sendMessage(S, [type |-> "INFO_RESULT", version |-> ServerInfo.version,
                    protocolVersion |-> ServerInfo.protocolVersion,
                    capabilities |-> ServerInfo.capabilities,
                    storageRoot |-> ServerInfo.storageRoot])

\* a handler that answers BYE before it ends the socket
handleByeMutantReplies(S) ==
    LET S1 == sendMessage(S, [type |-> "BYE_OK"]) IN
    IF S1.socket = "open" THEN [S1 EXCEPT !.socket = "ended"] ELSE S1
\* LeoSession.handleBye: socket.end() half-closes the sending side
handleBye(S) == IF S.socket = "open" THEN [S EXCEPT !.socket = "ended"] ELSE S

\* a router that drops a command of unknown type without a reply
routeMessageMutantIgnoresUnknown(S, message) ==
    IF message.kind = "null" THEN Uncaught(S)
    ELSE IF message.kind # "object" \/ "type" \notin message.has \/ message.type = ""
    THEN sendError(S, "INVALID_MESSAGE", "Type absent")
    ELSE LET a == ensureAuth(S, message) IN
         IF ~a.ok THEN a.S
         ELSE CASE message.type = "AUTH" -> handleAuth(S, message)
                [] message.type = "PUT_BEGIN" -> handlePutBegin(S, message)
                [] message.type = "PUT_CHUNK" -> handlePutChunk(S, message)
                [] message.type = "PUT_END" -> handlePutEnd(S, message)
                [] message.type = "GET_BEGIN" -> handleGetBegin(S, message)
                [] message.type = "LIST" -> handleList(S, message)
                [] message.type = "DEL" -> handleDel(S, message)
                [] message.type = "INFO" -> handleInfo(S, message)
                [] message.type = "BYE" -> handleBye(S)
                [] OTHER -> S

\* LeoSession.routeMessage
routeMessage(S, message) ==
    IF message.kind = "null" THEN Uncaught(S)
    ELSE IF message.kind # "object" \/ "type" \notin message.has \/ message.type = ""
    THEN sendError(S, "INVALID_MESSAGE", "Type absent")
    ELSE LET a == ensureAuth(S, message) IN
         IF ~a.ok THEN a.S
         ELSE CASE message.type = "AUTH" -> handleAuth(S, message)
                [] message.type = "PUT_BEGIN" -> handlePutBegin(S, message)
                [] message.type = "PUT_CHUNK" -> handlePutChunk(S, message)
                [] message.type = "PUT_END" -> handlePutEnd(S, message)
                [] message.type = "GET_BEGIN" -> handleGetBegin(S, message)
                [] message.type = "LIST" -> handleList(S, message)
                [] message.type = "DEL" -> handleDel(S, message)
                [] message.type = "INFO" -> handleInfo(S, message)
                [] message.type = "BYE" -> handleBye(S)
                [] OTHER -> sendError(S, "INVALID_COMMAND", "Commande inconnue")

\* bookkeeping: frame number nextReq + 1 is being handled, with this outcome of decoding
Dispatched(S, how, message) ==
    [S EXCEPT !.nextReq = @ + 1, !.cur = S.nextReq + 1,
              !.reqLog = Append(@, [how |-> how, authed |-> S.authed, ended |-> S.socket # "open",
                                    msg |-> message])]

\* a session that answers a frame it cannot decrypt and keeps the socket
handleEncryptedFrameMutantRepliesError(S, frame) ==
    IF S.clientToServerKey = NoKey THEN Destroy(Dispatched(S, "nokey", Blank))
    ELSE LET d == decryptAesGcm(S.clientToServerKey, frame) IN
         IF ~d.ok
         THEN sendError(Dispatched(S, "undecryptable", Blank), "INVALID_MESSAGE", "Message illisible")
         ELSE IF ~d.plaintext.json
         THEN sendError(Dispatched(S, "unparsable", Blank), "INVALID_MESSAGE", "Message illisible")
         ELSE routeMessage(Dispatched(S, "routed", d.plaintext.v), d.plaintext.v)

\* a session that destroys the socket on unreadable JSON instead of answering
handleEncryptedFrameMutantDropsBadJson(S, frame) ==
    IF S.clientToServerKey = NoKey THEN Destroy(Dispatched(S, "nokey", Blank))
    ELSE LET d == decryptAesGcm(S.clientToServerKey, frame) IN
         IF ~d.ok THEN Destroy(Dispatched(S, "undecryptable", Blank))
         ELSE IF ~d.plaintext.json THEN Destroy(Dispatched(S, "unparsable", Blank))
         ELSE routeMessage(Dispatched(S, "routed", d.plaintext.v), d.plaintext.v)
\* LeoSession.handleEncryptedFrame
handleEncryptedFrame(S, frame) ==
    IF S.clientToServerKey = NoKey THEN Destroy(Dispatched(S, "nokey", Blank))
    ELSE LET d == decryptAesGcm(S.clientToServerKey, frame) IN
         IF ~d.ok THEN Destroy(Dispatched(S, "undecryptable", Blank))
         ELSE IF ~d.plaintext.json
         THEN sendError(Dispatched(S, "unparsable", Blank), "INVALID_MESSAGE", "Message illisible")
         ELSE routeMessage(Dispatched(S, "routed", d.plaintext.v), d.plaintext.v)

\* the SERVER_HELLO line of handleClientHello
ServerHello(S) ==
    [kind |-> "line", key |-> "",
     msg |-> [type |-> "SERVER_HELLO", ok |-> TRUE, version |-> 1, cipher |-> "AES-256-GCM",
              kex |-> "X25519", serverPublicKey |-> "spki", sessionId |-> S.sessionId]]

completeHandshakeMutantStaysInHello(S, msg) ==
    LET S1 == [S EXCEPT !.sessionId = "sid", !.cur = 0] IN
    IF msg.clientPublicKey # "spki" THEN Uncaught(S1)
    ELSE LET keys == deriveSessionKeys(TRUE)
             S2 == [S1 EXCEPT !.clientToServerKey = keys.clientToServerKey,
                              !.serverToClientKey = keys.serverToClientKey]
         IN  [SocketWrite(S2, ServerHello(S2))
                 EXCEPT !.handshakeTimeout = IF @ = "armed" THEN "cleared" ELSE @]

completeHandshakeMutantKeepsTimer(S, msg) ==
    LET S1 == [S EXCEPT !.sessionId = "sid", !.cur = 0] IN
    IF msg.clientPublicKey # "spki" THEN Uncaught(S1)
    ELSE LET keys == deriveSessionKeys(TRUE)
             S2 == [S1 EXCEPT !.clientToServerKey = keys.clientToServerKey,
                              !.serverToClientKey = keys.serverToClientKey]
         IN  [SocketWrite(S2, ServerHello(S2)) EXCEPT !.handshakeComplete = TRUE]

\* LeoSession.handleClientHello once the payload passed validation: a
\* clientPublicKey other than a valid SPKI-encoded X25519 key makes
\* computeSharedSecret throw, after sessionId was assigned
completeHandshake(S, msg) ==
    LET S1 == [S EXCEPT !.sessionId = "sid", !.cur = 0] IN
    IF msg.clientPublicKey # "spki" THEN Uncaught(S1)
    ELSE LET keys == deriveSessionKeys(TRUE)
             S2 == [S1 EXCEPT !.clientToServerKey = keys.clientToServerKey,
                              !.serverToClientKey = keys.serverToClientKey]
         IN  [SocketWrite(S2, ServerHello(S2))
                 EXCEPT !.handshakeComplete = TRUE,
                        !.handshakeTimeout = IF @ = "armed" THEN "cleared" ELSE @]

\* decodeJsonLine(line): the line parses when it is exactly one JSON document
decodeJsonLine(line) ==
    IF Len(line) = 1 /\ line[1].k = "" /\ line[1].pt.json
    THEN [ok |-> TRUE, parsed |-> line[1].pt.v]
    ELSE [ok |-> FALSE, parsed |-> Blank]

\* a session that takes an AUTH sent as the first line for an authentication
handleClientHelloMutantAuthInHello(S, line) ==
    IF ~decodeJsonLine(line).ok THEN Destroy(S)
    ELSE LET msg == decodeJsonLine(line).parsed IN
         IF msg.kind = "null" THEN Uncaught(S)
         ELSE IF "type" \in msg.has /\ msg.type = "AUTH" THEN [S EXCEPT !.authed = TRUE]
         ELSE IF \/ msg.kind \notin {"object", "array"}
                 \/ ~("type" \in msg.has /\ msg.type = "CLIENT_HELLO")
                 \/ ~("version" \in msg.has /\ msg.version = 1)
                 \/ ~("kex" \in msg.has /\ msg.kex = "X25519")
                 \/ ~("cipher" \in msg.has /\ msg.cipher = "AES-256-GCM")
                 \/ "clientPublicKey" \notin msg.has
         THEN Destroy(S)
         ELSE completeHandshake(S, msg)

\* LeoSession.handleClientHello: typeof null is "object", and reading a
\* property of null throws
handleClientHello(S, line) ==
    IF ~decodeJsonLine(line).ok THEN Destroy(S)
    ELSE LET msg == decodeJsonLine(line).parsed IN
         IF msg.kind = "null" THEN Uncaught(S)
         ELSE IF \/ msg.kind \notin {"object", "array"}
                 \/ ~("type" \in msg.has /\ msg.type = "CLIENT_HELLO")
                 \/ ~("version" \in msg.has /\ msg.version = 1)
                 \/ ~("kex" \in msg.has /\ msg.kex = "X25519")
                 \/ ~("cipher" \in msg.has /\ msg.cipher = "AES-256-GCM")
                 \/ "clientPublicKey" \notin msg.has
         THEN Destroy(S)
         ELSE completeHandshake(S, msg)

RECURSIVE HandleFrames(_, _)
\* onData's for loop over the complete frames: only an exception leaves it early
HandleFrames(S, frames) ==
    IF frames = <<>> \/ S.crashed THEN S
    ELSE HandleFrames(handleEncryptedFrame(S, Head(frames)), Tail(frames))

\* index of the first newline of the text, 0 when absent
NewlineIndex(text) ==
    IF \E i \in 1..Len(text) : text[i].b = 10
    THEN CHOOSE i \in 1..Len(text) : text[i].b = 10 /\ \A j \in 1..(i - 1) : text[j].b # 10
    ELSE 0

\* LeoSession.onData
onData(S, chunk) ==
    IF S.closed THEN S
    ELSE IF ~S.handshakeComplete THEN
        LET buffer == S.handshakeBuffer \o chunk
            index == NewlineIndex(buffer)
        IN  IF index # 0
            THEN handleClientHello([S EXCEPT !.handshakeBuffer = SubSeq(buffer, index + 1, Len(buffer)),
                                             !.helloLog = Append(@, SubSeq(buffer, 1, index - 1))],
                                   SubSeq(buffer, 1, index - 1))
            ELSE [S EXCEPT !.handshakeBuffer = buffer]
    ELSE
        LET c == consumeFrames(S.frameBuffer \o chunk) IN
        HandleFrames([S EXCEPT !.frameBuffer = c.remaining], c.frames)

\* LeoSession.onClose
onClose(S) ==
    IF S.closed THEN S
    ELSE [S EXCEPT !.closed = TRUE,
                   !.handshakeTimeout = IF @ = "armed" THEN "cleared" ELSE @]

\* the callback of the handshake timer set by the constructor
onHandshakeTimeout(S) == Destroy([S EXCEPT !.handshakeTimeout = "fired"])

-----------------------------------------------------------------------------
(* Completion of an awaited filesystem call: the call takes effect and the *)
(* code after the await runs up to the next await.                         *)

\* the DEL_ERROR reply of handleDel's catch block
DelError(S, path, code) ==
    sendMessage(S, [type |-> "DEL_ERROR", path |-> path,
                    errorCode |-> mapStorageError(code),
                    message |-> MessageOf(mapStorageError(code)),
                    error |-> MessageOf(mapStorageError(code))])

\* handleGetBegin's while loop: start the next readChunk or finish with GET_END
GetLoop(S, t) ==
    IF t.offset < t.size
    THEN ReplaceTask(S, t, [t EXCEPT !.pc = "open", !.ino = 0, !.data = <<>>])
    ELSE DropTask(sendMessage(S, [type |-> "GET_END", path |-> t.path]), t)

\* Storage.list's for loop: directories are pushed at once, a file awaits its stat
RECURSIVE ListLoop(_, _, _)
ListLoop(S, t, u) ==
    IF u.items = <<>>
    THEN DropTask(sendMessage(S, [type |-> "LIST_RESULT", path |-> t.path, items |-> u.acc]), t)
    ELSE IF Head(u.items).isDir
    THEN ListLoop(S, t, [u EXCEPT !.items = Tail(@),
                                  !.acc = Append(@, [name |-> Head(u.items).name, type |-> "dir"])])
    ELSE ReplaceTask(S, t, [u EXCEPT !.pc = "stat"])

\* Storage.writeWholeFile after each await (called by handlePutBegin with no bytes)
StepPutBegin(S, t) ==
    IF t.pc = "mkdir" THEN
        LET r == SysMkdir(S, Dirname(t.full)) IN
        IF r.err # "" THEN DropTask(sendStorageError(r.S, r.err), t)
        ELSE ReplaceTask(r.S, t, [t EXCEPT !.pc = "writeFile"])
    ELSE
        LET r == SysWriteFile(S, t.full, t.data) IN
        IF r.err # "" THEN DropTask(sendStorageError(r.S, wrapFsError(r.err)), t)
        ELSE DropTask(r.S, t)

\* Storage.writeChunk after each await
StepPutChunk(S, t) ==
    IF t.pc = "mkdir" THEN
        LET r == SysMkdir(S, Dirname(t.full)) IN
        IF r.err # "" THEN DropTask(sendStorageError(r.S, r.err), t)
        ELSE ReplaceTask(r.S, t, [t EXCEPT !.pc = "open"])
    ELSE IF t.pc = "open" THEN
        LET r == SysOpenAppend(S, t.full) IN
        IF r.err # "" THEN DropTask(sendStorageError(r.S, wrapFsError(r.err)), t)
        ELSE ReplaceTask(r.S, t, [t EXCEPT !.pc = "write", !.ino = r.val])
    ELSE IF t.pc = "write" THEN
        LET r == SysWriteAppendHandle(S, t.full, t.ino, t.data, t.offset) IN
        ReplaceTask(r.S, t, [t EXCEPT !.pc = "close"])
    ELSE DropTask(S, t)

\* handleGetBegin with Storage.fileSize and Storage.readChunk, after each await
StepGet(S, t) ==
    IF t.pc = "stat" THEN
        LET r == SysStat(S, t.full) IN
        IF r.err # "" THEN DropTask(sendStorageError(r.S, wrapFsError(r.err)), t)
        ELSE IF ~r.val.isFile THEN DropTask(sendStorageError(r.S, wrapFsError("NOT_A_FILE")), t)
        ELSE LET u == [t EXCEPT !.size = r.val.size, !.offset = 0] IN
             GetLoop(ReplaceTask(sendMessage(r.S, [type |-> "GET_META", path |-> t.path,
                                                   size |-> r.val.size]), t, u), u)
    ELSE IF t.pc = "open" THEN
        LET r == SysOpenRead(S, t.full) IN
        IF r.err # "" THEN DropTask(sendStorageError(r.S, wrapFsError(r.err)), t)
        ELSE ReplaceTask(r.S, t, [t EXCEPT !.pc = "read", !.ino = r.val])
    ELSE IF t.pc = "read" THEN
        LET r == SysRead(S, t.full, t.ino, t.offset, ChunkSize) IN
        IF r.err # "" THEN DropTask(sendStorageError(r.S, wrapFsError(r.err)), t)
        ELSE ReplaceTask(r.S, t, [t EXCEPT !.pc = "close", !.data = r.val])
    ELSE
        LET u == [t EXCEPT !.offset = @ + Len(t.data)] IN
        GetLoop(ReplaceTask(sendMessage(S, [type |-> "GET_CHUNK", path |-> t.path,
                                            offset |-> t.offset,
                                            data |-> Base64Encode(t.data)]), t, u), u)

\* handleList with Storage.list, after each await
StepList(S, t) ==
    IF t.pc = "readdir" THEN
        LET r == SysReaddir(S, t.full) IN
        IF r.err # "" THEN DropTask(sendStorageError(r.S, wrapFsError(r.err)), t)
        ELSE ListLoop(r.S, t, [t EXCEPT !.items =
                 [i \in 1..Len(r.val) |->
                     [name |-> r.val[i], isDir |-> IsDir(r.S, Append(t.full, r.val[i]))]]])
    ELSE
        LET name == Head(t.items).name
            r == SysStat(S, Append(t.full, name))
        IN  IF r.err # "" THEN DropTask(sendStorageError(r.S, wrapFsError(r.err)), t)
            ELSE ListLoop(r.S, t, [t EXCEPT !.items = Tail(@),
                     !.acc = Append(@, [name |-> name, type |-> "file", size |-> r.val.size])])

\* handleDel with Storage.deleteFile, after each await
StepDel(S, t) ==
    IF t.pc = "stat" THEN
        LET r == SysStat(S, t.full) IN
        IF r.err # "" THEN DropTask(DelError(r.S, t.path, wrapFsError(r.err)), t)
        ELSE IF ~r.val.isFile THEN DropTask(DelError(r.S, t.path, wrapFsError("NOT_A_FILE")), t)
        ELSE ReplaceTask(r.S, t, [t EXCEPT !.pc = "rm"])
    ELSE
        LET r == SysRm(S, t.full) IN
        IF r.err # "" THEN DropTask(DelError(r.S, t.path, wrapFsError(r.err)), t)
        ELSE DropTask(sendMessage(r.S, [type |-> "DEL_OK", path |-> t.path]), t)

\* the continuation of task t once its pending filesystem call has completed
StepTask(S0, t) ==
    LET S == [S0 EXCEPT !.cur = t.req] IN
    Gc(CASE t.kind = "PUT_BEGIN" -> StepPutBegin(S, t)
         [] t.kind = "PUT_CHUNK" -> StepPutChunk(S, t)
         [] t.kind = "GET" -> StepGet(S, t)
         [] t.kind = "LIST" -> StepList(S, t)
         [] OTHER -> StepDel(S, t))

\* the handler of a promise that was rejected before it issued a filesystem call
RunReaction(S0, j) ==
    LET S == [S0 EXCEPT !.cur = j.req] IN
    IF j.kind = "DEL_ERROR" THEN DelError(S, j.path, j.code) ELSE sendStorageError(S, j.code)

RECURSIVE RunReactions(_, _)
RunReactions(S, js) ==
    IF js = <<>> THEN S ELSE RunReactions(RunReaction(S, Head(js)), Tail(js))

\* the promise reactions queued by one event, in the order the job queue runs
\* them: a handler one turn away runs before a handler two turns away
DrainMicro(S) ==
    LET one == SelectSeq(S.micro, LAMBDA j : j.ticks = 1)
        two == SelectSeq(S.micro, LAMBDA j : j.ticks = 2)
    IN  [RunReactions(S, one \o two) EXCEPT !.micro = <<>>]

-----------------------------------------------------------------------------
(* The state record of the handlers and the variables it is read from      *)

St ==
    [handshakeBuffer |-> handshakeBuffer, frameBuffer |-> frameBuffer,
     handshakeComplete |-> handshakeComplete, authed |-> authed,
     clientToServerKey |-> clientToServerKey, serverToClientKey |-> serverToClientKey,
     sessionId |-> sessionId, ongoingUploads |-> ongoingUploads, closed |-> closed,
     handshakeTimeout |-> handshakeTimeout, socket |-> socket, sent |-> sent,
     tasks |-> tasks, nextReq |-> nextReq, fs |-> fs, inodes |-> inodes, fsLog |-> fsLog,
     reqLog |-> reqLog, helloLog |-> helloLog, crashed |-> crashed, appendMode |-> appendMode,
     micro |-> <<>>, cur |-> 0, blocked |-> FALSE]

\* the next state is S, provided S stays within the bounds of the model
Becomes(S) ==
    /\ ~S.blocked
    /\ Len(S.sent) <= MaxSent
    /\ handshakeBuffer' = S.handshakeBuffer
    /\ frameBuffer' = S.frameBuffer
    /\ handshakeComplete' = S.handshakeComplete
    /\ authed' = S.authed
    /\ clientToServerKey' = S.clientToServerKey
    /\ serverToClientKey' = S.serverToClientKey
    /\ sessionId' = S.sessionId
    /\ ongoingUploads' = S.ongoingUploads
    /\ closed' = S.closed
    /\ handshakeTimeout' = S.handshakeTimeout
    /\ socket' = S.socket
    /\ sent' = S.sent
    /\ tasks' = S.tasks
    /\ nextReq' = S.nextReq
    /\ fs' = S.fs
    /\ inodes' = S.inodes
    /\ fsLog' = S.fsLog
    /\ reqLog' = S.reqLog
    /\ helloLog' = S.helloLog
    /\ crashed' = S.crashed
    /\ appendMode' = S.appendMode

-----------------------------------------------------------------------------
(* What the remote endpoint can put on the wire                            *)

Obj(type, has) == [Blank EXCEPT !.type = type, !.has = has \cup {"type"}]

HelloOk ==
    [Obj("CLIENT_HELLO", {"version", "cipher", "kex", "clientPublicKey"})
        EXCEPT !.version = 1, !.cipher = "AES-256-GCM", !.kex = "X25519",
               !.clientPublicKey = "spki"]

\* LeoClient.connect: the CLIENT_HELLO line
ClientHelloLine == encodeJsonLine(HelloOk)

\* JSON documents that are no valid CLIENT_HELLO
BadHellos ==
    { [Blank EXCEPT !.kind = "null"],
      [Blank EXCEPT !.kind = "number"],
      [HelloOk EXCEPT !.type = "AUTH"],
      [HelloOk EXCEPT !.version = 2],
      [HelloOk EXCEPT !.cipher = "CHACHA20"],
      [HelloOk EXCEPT !.kex = "P-256"],
      [HelloOk EXCEPT !.has = @ \ {"clientPublicKey"}],
      [HelloOk EXCEPT !.clientPublicKey = ""],
      [HelloOk EXCEPT !.clientPublicKey = "junk"] }

\* LeoClient.sendMessage: JSON.stringify, encrypt, frame
Frame(key, message) == encodeFrame(encryptAesGcm(key, JsonText(message)))

P(segs) == [abs |-> FALSE, segs |-> segs]

Cmd(type, path) == [Obj(type, {"path"}) EXCEPT !.path = path]

Auth(username, password) ==
    [Obj("AUTH", {"username", "password"}) EXCEPT !.username = username, !.password = password]

PutBeginMsg(path, size) == [Obj("PUT_BEGIN", {"path", "size"}) EXCEPT !.path = path, !.size = size]

PutChunkMsg(path, offset, bytes) ==
    [Obj("PUT_CHUNK", {"path", "offset", "data"})
        EXCEPT !.path = path, !.offset = offset, !.data = Base64Encode(bytes)]


\* the paths the remote endpoint names
PathF == P(<<"f">>)                    \* a regular file under the root
PathS == P(<<"s">>)                    \* a directory under the root
PathM == P(<<"m">>)                    \* a name that does not exist
PathSibling == P(<<"..", "d2", "f">>)  \* a file of the sibling directory /d2 of the root /d
PathOut == P(<<"..", "e">>)            \* a name outside the root

\* chunks a peer sends while it has not seen SERVER_HELLO
HelloChunks ==
    {ClientHelloLine, ClientHelloLine \o Frame(C2S, Auth("user", "pass")),
     <<TextUnit(JsonText(HelloOk))>>, <<Newline>>, <<Byte(120)>>, <<Byte(120), Newline>>}
        \cup {encodeJsonLine(h) : h \in BadHellos}

\* messages of every type, as a peer of the general specification sends them
AnyMessages ==
    {Auth("user", "pass"), Auth("user", "wrong"), Auth("root", "pass"), Obj("AUTH", {}),
     PutBeginMsg(PathF, 1), PutChunkMsg(PathF, 0, <<7>>), Cmd("PUT_END", PathF),
     Cmd("GET_BEGIN", PathF), Cmd("LIST", PathS), Cmd("DEL", PathF),
     Obj("INFO", {}), Obj("BYE", {}), Obj("FOO", {})}

\* chunks a peer sends once the handshake is done
FrameChunks == {Frame(C2S, m) : m \in AnyMessages}

-----------------------------------------------------------------------------
(* The client engine: LeoClient.  Its methods are coroutines over the      *)
(* record c; pc names the await a method is suspended at and stage counts  *)
(* the calls of the integration test (connect, auth, put, get) that have   *)
(* returned.  out holds what the client wrote and the server has not yet   *)
(* received; rx counts the server's writes the client has received.        *)
(* expectedSize is a set: empty for undefined, else the one number.  error *)
(* is the code of the LeoProtocolError a method threw.                     *)

ClientOff ==
    [pc |-> "off", stage |-> 0, data |-> <<>>, remote |-> NoPath,
     clientToServerKey |-> NoKey, serverToClientKey |-> NoKey,
     handshakeBuffer |-> <<>>, frameBuffer |-> <<>>,
     out |-> <<>>, rx |-> 0, waiting |-> FALSE, messageQueue |-> <<>>,
     received |-> <<>>, expectedSize |-> {}, result |-> <<>>, error |-> "",
     closed |-> FALSE, ended |-> FALSE]

\* an awaited call rejects: the method throws to its caller
Throw(c) == [c EXCEPT !.pc = "failed", !.waiting = FALSE]

\* throw new LeoProtocolError(code, ...)
Raise(c, code) == [Throw(c) EXCEPT !.error = code]

\* a client that encrypts what it sends under the key it receives with
clientSendMessageMutantReceiveKey(c, message) ==
    [c EXCEPT !.out = Append(@, Frame(c.serverToClientKey, message))]
\* LeoClient.sendMessage
clientSendMessage(c, message) ==
    [c EXCEPT !.out = Append(@, Frame(c.clientToServerKey, message))]

\* LeoClient.raiseIfError: the message makes it throw
raiseIfError(message) == message.type \in {"ERROR", "AUTH_ERROR"}

\* received = Buffer.alloc(max(length, offset + data.length)), then both copies
CopyAt(received, offset, data) ==
    [i \in 1..Max(Len(received), offset + Len(data)) |->
        IF i > offset /\ i <= offset + Len(data) THEN data[i - offset]
        ELSE IF i <= Len(received) THEN received[i]
        ELSE 0]

RECURSIVE Resume(_, _)

\* LeoClient.nextMessage
nextMessage(c) ==
    IF c.messageQueue # <<>>
    THEN Resume([c EXCEPT !.messageQueue = Tail(@)], Head(c.messageQueue))
    ELSE IF c.closed THEN Throw(c)
    ELSE [c EXCEPT !.waiting = TRUE]

\* a get that writes whatever it accumulated
ResumeMutantNoSizeCheck(c, message) ==
    CASE c.pc = "auth" ->
            IF raiseIfError(message) THEN Raise(c, message.errorCode)
            ELSE IF message.type # "AUTH_OK" THEN Raise(c, "AUTH_FAILED")
            ELSE [c EXCEPT !.pc = "idle", !.stage = 1]
      [] c.pc = "put" ->
            IF raiseIfError(message) THEN Raise(c, message.errorCode)
            ELSE IF message.type = "PUT_OK" THEN [c EXCEPT !.pc = "idle", !.stage = 2]
            ELSE nextMessage(c)
      [] c.pc = "getMeta" ->
            IF raiseIfError(message) THEN Raise(c, message.errorCode)
            ELSE IF message.type # "GET_META" THEN Raise(c, "GET_META_MISSING")
            ELSE nextMessage([c EXCEPT !.pc = "getBody", !.received = <<>>,
                                       !.expectedSize = IF "size" \in DOMAIN message
                                                        THEN {message.size} ELSE {}])
      [] c.pc = "getBody" ->
            IF raiseIfError(message) THEN Raise(c, message.errorCode)
            ELSE IF message.type = "GET_END" THEN
                [c EXCEPT !.pc = "idle", !.stage = 3, !.result = c.received]
            ELSE IF ~({"data", "offset"} \subseteq DOMAIN message) THEN Throw(c)
            ELSE nextMessage([c EXCEPT !.received =
                                CopyAt(@, message.offset, Base64Decode(message.data))])
      [] OTHER -> c
\* the code of auth, put and get after their await of nextMessage
Resume(c, message) ==
    CASE c.pc = "auth" ->
            IF raiseIfError(message) THEN Raise(c, message.errorCode)
            ELSE IF message.type # "AUTH_OK" THEN Raise(c, "AUTH_FAILED")
            ELSE [c EXCEPT !.pc = "idle", !.stage = 1]
      [] c.pc = "put" ->
            IF raiseIfError(message) THEN Raise(c, message.errorCode)
            ELSE IF message.type = "PUT_OK" THEN [c EXCEPT !.pc = "idle", !.stage = 2]
            ELSE nextMessage(c)
      [] c.pc = "getMeta" ->
            IF raiseIfError(message) THEN Raise(c, message.errorCode)
            ELSE IF message.type # "GET_META" THEN Raise(c, "GET_META_MISSING")
            ELSE nextMessage([c EXCEPT !.pc = "getBody", !.received = <<>>,
                                       !.expectedSize = IF "size" \in DOMAIN message
                                                        THEN {message.size} ELSE {}])
      [] c.pc = "getBody" ->
            IF raiseIfError(message) THEN Raise(c, message.errorCode)
            ELSE IF message.type = "GET_END" THEN
                IF c.expectedSize # {} /\ Len(c.received) \notin c.expectedSize
                THEN Raise(c, "GET_INCOMPLETE")
                ELSE [c EXCEPT !.pc = "idle", !.stage = 3, !.result = c.received]
            ELSE IF ~({"data", "offset"} \subseteq DOMAIN message) THEN Throw(c)
            ELSE nextMessage([c EXCEPT !.received =
                                CopyAt(@, message.offset, Base64Decode(message.data))])
      [] OTHER -> c

\* LeoClient.connect up to its await of readHandshakeLine
connect(c) == [c EXCEPT !.pc = "hello", !.out = Append(@, ClientHelloLine)]

\* LeoClient.auth
auth(c, username, password) ==
    nextMessage(clientSendMessage([c EXCEPT !.pc = "auth"], Auth(username, password)))

\* the loop of LeoClient.put that sends the chunks
RECURSIVE PutChunks(_, _, _, _)
PutChunks(c, remotePath, data, offset) ==
    IF offset >= Len(data) THEN c
    ELSE LET end == Min(offset + ChunkSize, Len(data))
             chunk == SubSeq(data, offset + 1, end)
         IN  PutChunks(clientSendMessage(c, PutChunkMsg(remotePath, offset, chunk)),
                       remotePath, data, end)

\* LeoClient.put
put(c, data, remotePath) ==
    LET c1 == clientSendMessage([c EXCEPT !.pc = "put"], PutBeginMsg(remotePath, Len(data)))
        c2 == PutChunks(c1, remotePath, data, 0)
        c3 == clientSendMessage(c2, Cmd("PUT_END", remotePath))
    IN  nextMessage(c3)

\* LeoClient.get
get(c, remotePath) ==
    nextMessage(clientSendMessage([c EXCEPT !.pc = "getMeta"], Cmd("GET_BEGIN", remotePath)))

\* LeoClient.bye
bye(c) ==
    IF c.closed \/ c.clientToServerKey = NoKey THEN c
    ELSE [clientSendMessage(c, Obj("BYE", {})) EXCEPT !.ended = TRUE]

\* LeoClient.onSocketClosed
onSocketClosed(c) ==
    IF c.closed THEN c
    ELSE IF c.waiting THEN Throw([c EXCEPT !.closed = TRUE])
    ELSE [c EXCEPT !.closed = TRUE]

\* the handler of readHandshakeLine and the rest of connect: the keys are
\* derived from the server's public key and session id
readHandshakeLine(c, chunk) ==
    LET buffer == c.handshakeBuffer \o chunk
        index == NewlineIndex(buffer)
    IN  IF index = 0 THEN [c EXCEPT !.handshakeBuffer = buffer]
        ELSE LET line == SubSeq(buffer, 1, index - 1)
                 c1 == [c EXCEPT !.handshakeBuffer = Drop(buffer, index)]
             IN  IF ~decodeJsonLine(line).ok THEN Throw(c1)
                 ELSE LET serverHello == decodeJsonLine(line).parsed
                          keys == deriveSessionKeys(serverHello.serverPublicKey = "spki"
                                                    /\ serverHello.sessionId = "sid")
                      IN  [c1 EXCEPT !.clientToServerKey = keys.clientToServerKey,
                                     !.serverToClientKey = keys.serverToClientKey,
                                     !.pc = "idle"]

\* the loop of LeoClient.onData over the frames: a frame that does not
\* decrypt throws out of the listener
RECURSIVE ClientFrames(_, _)
ClientFrames(c, frames) ==
    IF frames = <<>> THEN c
    ELSE LET d == decryptAesGcm(c.serverToClientKey, Head(frames)) IN
         IF ~d.ok \/ ~d.plaintext.json THEN [c EXCEPT !.pc = "crashed", !.waiting = FALSE]
         ELSE IF c.waiting
         THEN ClientFrames(Resume([c EXCEPT !.waiting = FALSE], d.plaintext.v), Tail(frames))
         ELSE ClientFrames([c EXCEPT !.messageQueue = Append(@, d.plaintext.v)], Tail(frames))

\* LeoClient.onData
clientOnData(c, chunk) ==
    IF c.serverToClientKey = NoKey THEN readHandshakeLine(c, chunk)
    ELSE LET r == consumeFrames(c.frameBuffer \o chunk) IN
         ClientFrames([c EXCEPT !.frameBuffer = r.remaining], r.frames)

\* the outcome of a call of nextMessage: not made yet, pending, resolved
\* with message number m, rejected by its timer, rejected by the close
NotCalled == [st |-> "none", m |-> 0]
Pending == [st |-> "pending", m |-> 0]
Resolved(m) == [st |-> "message", m |-> m]
Rejected(why) == [st |-> why, m |-> 0]

\* a client right after connect: waiters holds the calls whose waiter record
\* is in the list, timers the calls whose timer is set.  deadAt and late
\* remember the first timeout: the number of calls made before it and the
\* number of the message the call was waiting for (0: no timeout so far)
BoxOff ==
    [waiters |-> <<>>, messageQueue |-> <<>>, closed |-> FALSE, timers |-> {},
     outcome |-> [k \in 1..MaxCalls |-> NotCalled], issued |-> 0, inbound |-> 0,
     closes |-> 0, deadAt |-> 0, late |-> 0]

\* resolve or reject of a promise: a settled promise keeps its outcome
Settle(b, k, outcome) ==
    IF b.outcome[k] = Pending THEN [b EXCEPT !.outcome[k] = outcome] ELSE b

\* LeoClient.nextMessage, called for the k-th time
boxNextMessage(b, k) ==
    IF b.messageQueue # <<>>
    THEN [b EXCEPT !.issued = k, !.messageQueue = Tail(@),
                   !.outcome[k] = Resolved(Head(b.messageQueue))]
    ELSE LET b1 == [b EXCEPT !.issued = k, !.outcome[k] = Pending,
                             !.timers = @ \cup {k}, !.waiters = Append(@, k)]
         IN  IF b1.closed
             THEN Settle([b1 EXCEPT !.timers = @ \ {k}], k, Rejected("closed"))
             ELSE b1

\* the timer callback of nextMessage for call k
boxTimeout(b, k) ==
    LET place == Cardinality({i \in 1..Len(b.waiters) : b.waiters[i] <= k})
        first == b.deadAt = 0 /\ b.outcome[k] = Pending
    IN  Settle([b EXCEPT !.timers = @ \ {k},
                         !.waiters = SelectSeq(@, LAMBDA w : w # k),
                         !.deadAt = IF first THEN b.issued ELSE @,
                         !.late = IF first THEN b.inbound + place ELSE @],
               k, Rejected("timeout"))

\* a loop that takes the newest waiter for an inbound message
boxDispatchMutantNewestWaiter(b, m) ==
    IF Len(b.waiters) > 0
    THEN LET w == b.waiters[Len(b.waiters)] IN
         Settle([b EXCEPT !.waiters = SubSeq(@, 1, Len(@) - 1), !.timers = @ \ {w},
                          !.inbound = m], w, Resolved(m))
    ELSE [b EXCEPT !.messageQueue = Append(@, m), !.inbound = m]
\* the body of the loop of LeoClient.onData for message number m
boxDispatch(b, m) ==
    IF Len(b.waiters) > 0
    THEN LET w == Head(b.waiters) IN
         Settle([b EXCEPT !.waiters = Tail(@), !.timers = @ \ {w}, !.inbound = m],
                w, Resolved(m))
    ELSE [b EXCEPT !.messageQueue = Append(@, m), !.inbound = m]

\* LeoClient.onData for a chunk that completes n frames
RECURSIVE boxOnData(_, _)
boxOnData(b, n) ==
    IF n = 0 THEN b ELSE boxOnData(boxDispatch(b, b.inbound + 1), n - 1)

RECURSIVE RejectAll(_, _)
\* the loop of onSocketClosed over the waiters
RejectAll(b, ws) ==
    IF ws = <<>> THEN b
    ELSE RejectAll(Settle([b EXCEPT !.timers = @ \ {Head(ws)}], Head(ws), Rejected("closed")),
                   Tail(ws))

\* LeoClient.onSocketClosed
boxSocketClosed(b) ==
    IF b.closed THEN [b EXCEPT !.closes = @ + 1]
    ELSE [RejectAll([b EXCEPT !.closed = TRUE, !.closes = @ + 1], b.waiters)
             EXCEPT !.waiters = <<>>]

\* the bytes of one write of the session
WireBytes(entry) ==
    IF entry.kind = "line" THEN encodeJsonLine(entry.msg)
    ELSE encodeFrame(encryptAesGcm(entry.key, JsonText(entry.msg)))

-----------------------------------------------------------------------------
(* Initial state: a session right after its constructor ran, over a        *)
(* storage root that holds a file f and a directory s, next to a sibling   *)
(* directory /d2.                                                          *)

InitContents == {<<>>, <<7>>, <<7, 8, 9>>}
\* the file of the general specification spans two chunks
LongContent == <<7, 8, 9>>

InitFs ==
    (<<>> :> DirEntry) @@ (<<"d">> :> DirEntry) @@ (<<"d", "f">> :> FileEntry(1))
        @@ (<<"d", "s">> :> DirEntry) @@ (<<"d2">> :> DirEntry)
        @@ (<<"d2", "f">> :> FileEntry(2))

InitSession ==
    /\ handshakeBuffer = <<>>
    /\ frameBuffer = <<>>
    /\ handshakeComplete = FALSE
    /\ authed = FALSE
    /\ clientToServerKey = NoKey
    /\ serverToClientKey = NoKey
    /\ sessionId = ""
    /\ ongoingUploads = <<>>
    /\ closed = FALSE
    /\ handshakeTimeout = "armed"
    /\ socket = "open"
    /\ sent = <<>>
    /\ tasks = {}
    /\ nextReq = 0
    /\ fs = InitFs
    /\ inodes \in {[n \in 1..MaxIno |-> IF n = 1 THEN c ELSE IF n = 2 THEN <<5>> ELSE <<>>] :
                        c \in InitContents}
    /\ fsLog = {}
    /\ reqLog = <<>>
    /\ helloLog = <<>>
    /\ crashed = FALSE
    /\ appendMode \in BOOLEAN

Init ==
    /\ InitSession
    /\ inodes[1] = LongContent
    /\ peer = [n |-> 0, closed |-> FALSE]
    /\ client = ClientOff
    /\ stream = StreamOff
    /\ box = BoxOff

-----------------------------------------------------------------------------
(* Events of the server process                                            *)

\* the socket's 'data' event with one TCP chunk, and the promise reactions it queued
OnData(chunk) ==
    /\ ~crashed
    /\ socket # "destroyed"
    /\ Becomes(DrainMicro(onData(St, chunk)))

\* the handshake timer elapses
HandshakeTimeout ==
    /\ ~crashed
    /\ handshakeTimeout = "armed"
    /\ Becomes(onHandshakeTimeout(St))
    /\ UNCHANGED <<peer, client, stream, box>>

\* the socket's 'close' event, emitted once after the socket was destroyed
OnClose ==
    /\ ~crashed
    /\ socket = "destroyed"
    /\ ~closed
    /\ Becomes(onClose(St))
    /\ UNCHANGED <<peer, client, stream, box>>

\* a pending filesystem call of task t completes
FsDone(t) ==
    /\ ~crashed
    /\ Becomes(StepTask(St, t))
    /\ UNCHANGED <<peer, client, stream, box>>

\* the remote endpoint closes the connection: the server's socket is torn down
PeerClose ==
    /\ ~crashed
    /\ ~peer.closed
    /\ socket # "destroyed"
    /\ peer' = [peer EXCEPT !.closed = TRUE]
    /\ UNCHANGED <<client, stream, box>>
    /\ Becomes(Destroy(St))

\* the remote endpoint sends one more chunk
PeerSend ==
    /\ ~peer.closed
    /\ peer.n < MaxItems
    /\ \E chunk \in IF handshakeComplete THEN FrameChunks ELSE HelloChunks : OnData(chunk)
    /\ peer' = [peer EXCEPT !.n = @ + 1]
    /\ UNCHANGED <<client, stream, box>>

Next ==
    \/ PeerSend
    \/ HandshakeTimeout
    \/ OnClose
    \/ \E t \in tasks : FsDone(t)
    \/ PeerClose

Spec == Init /\ [][Next]_vars


\* timers that are armed fire, and a destroyed socket emits 'close'
FairSpec == Spec /\ WF_vars(HandshakeTimeout) /\ WF_vars(OnClose)

-----------------------------------------------------------------------------
(* The storage specification: the peer completes the handshake,            *)
(* authenticates, and then pipelines file commands over every kind of path *)

StoreMessages ==
    {Cmd("DEL", p) : p \in {PathF, PathS, PathSibling, PathOut}}
        \cup {Cmd("GET_BEGIN", p) : p \in {PathF, PathS, PathSibling, PathOut}}
        \cup {Cmd("LIST", p) : p \in {PathS, PathOut}}
        \cup {PutBeginMsg(p, 1) : p \in {PathF, PathOut}}
        \cup {PutChunkMsg(PathF, 0, <<7>>), Cmd("PUT_END", PathF)}

StoreChunks ==
    IF peer.n = 0 THEN {ClientHelloLine}
    ELSE IF peer.n = 1 THEN {Frame(C2S, Auth("user", "pass"))}
    ELSE {Frame(C2S, m) : m \in StoreMessages}

\* the file f is empty or spans two chunks
StoreContents == {<<>>, LongContent}

InitStore ==
    /\ InitSession
    /\ inodes[1] \in StoreContents
    /\ peer = [n |-> 0, closed |-> FALSE]
    /\ client = ClientOff
    /\ stream = StreamOff
    /\ box = BoxOff

PeerSendStore ==
    /\ ~peer.closed
    /\ peer.n < MaxItems
    /\ \E chunk \in StoreChunks : OnData(chunk)
    /\ peer' = [peer EXCEPT !.n = @ + 1]
    /\ UNCHANGED <<client, stream, box>>

NextStore ==
    \/ PeerSendStore
    \/ HandshakeTimeout
    \/ OnClose
    \/ \E t \in tasks : FsDone(t)
    \/ PeerClose

SpecStore == InitStore /\ [][NextStore]_vars

-----------------------------------------------------------------------------
(* The client specification: a LeoClient runs the integration test         *)
(* (connect, auth, put, get, bye) against the session; the network         *)
(* delivers what either side wrote in order, in chunks of any size.        *)

\* the byte sequences put: empty, shorter than a chunk, spanning two chunks
ClientData == {<<>>, <<1>>, <<1, 2, 3>>}

InitClient ==
    /\ InitSession
    /\ inodes[1] = <<7>>
    /\ peer = [n |-> 0, closed |-> FALSE]
    /\ client \in {[ClientOff EXCEPT !.pc = "new", !.data = d, !.remote = r] :
                        d \in ClientData, r \in {PathF, PathM, PathOut}}
    /\ stream = StreamOff
    /\ box = BoxOff

sessionVars ==
    <<handshakeBuffer, frameBuffer, handshakeComplete, authed, clientToServerKey,
      serverToClientKey, sessionId, ongoingUploads, closed, handshakeTimeout,
      socket, sent, tasks, nextReq, fs, inodes, fsLog, reqLog, helloLog, crashed, appendMode>>

Running == ~client.ended /\ client.pc = "idle"

ClientConnect ==
    /\ client.pc = "new"
    /\ client' = connect(client)
    /\ UNCHANGED <<sessionVars, peer, stream, box>>

ClientAuth ==
    /\ Running /\ client.stage = 0
    /\ client' = auth(client, "user", "pass")
    /\ UNCHANGED <<sessionVars, peer, stream, box>>

ClientPut ==
    /\ Running /\ client.stage = 1
    /\ client' = put(client, client.data, client.remote)
    /\ UNCHANGED <<sessionVars, peer, stream, box>>

ClientGet ==
    /\ Running /\ client.stage = 2
    /\ client' = get(client, client.remote)
    /\ UNCHANGED <<sessionVars, peer, stream, box>>

ClientBye ==
    /\ ~client.ended
    /\ client.pc = "failed" \/ (client.pc = "idle" /\ client.stage = 3)
    /\ client' = bye(client)
    /\ client' # client
    /\ UNCHANGED <<sessionVars, peer, stream, box>>

\* the timer of readHandshakeLine or of nextMessage elapses
ClientTimeout ==
    /\ client.pc = "hello" \/ client.waiting
    /\ client' = Throw(client)
    /\ UNCHANGED <<sessionVars, peer, stream, box>>

\* the client's socket emits 'data' with the next write of the session
ClientReceive ==
    /\ client.pc \notin {"off", "new", "crashed"}
    /\ client.rx < Len(sent)
    /\ sent[client.rx + 1].delivered
    /\ client' = clientOnData([client EXCEPT !.rx = @ + 1], WireBytes(sent[client.rx + 1]))
    /\ UNCHANGED <<sessionVars, peer, stream, box>>

\* the client's socket emits 'close' once the server's socket is gone
ClientClosed ==
    /\ client.serverToClientKey # NoKey
    /\ ~client.closed
    /\ socket = "destroyed"
    /\ IF client.rx < Len(sent) THEN ~sent[client.rx + 1].delivered ELSE TRUE
    /\ client' = onSocketClosed(client)
    /\ UNCHANGED <<sessionVars, peer, stream, box>>

\* the server's socket emits 'data' with some of what the client wrote
Deliver ==
    /\ \E k \in 1..Len(client.out) :
        /\ OnData(Flatten(SubSeq(client.out, 1, k)))
        /\ client' = [client EXCEPT !.out = SubSeq(@, k + 1, Len(@))]
    /\ UNCHANGED <<peer, stream, box>>

\* the client's socket.end() reaches the server, whose socket closes
ClientEnd ==
    /\ ~crashed
    /\ client.ended /\ client.out = <<>>
    /\ socket # "destroyed"
    /\ Becomes(Destroy(St))
    /\ UNCHANGED <<peer, client, stream, box>>

NextClient ==
    \/ ClientConnect
    \/ ClientAuth
    \/ ClientPut
    \/ ClientGet
    \/ ClientBye
    \/ ClientTimeout
    \/ ClientReceive
    \/ ClientClosed
    \/ Deliver
    \/ ClientEnd
    \/ HandshakeTimeout
    \/ OnClose
    \/ \E t \in tasks : FsDone(t)

SpecClient == InitClient /\ [][NextClient]_vars

-----------------------------------------------------------------------------
(* A peer that sends damaged, malformed and misplaced frames                *)

\* the frame of a DEL the peer encrypts correctly
GoodBlob == encryptAesGcm(C2S, JsonText(Cmd("DEL", PathF)))

\* blobs that fail decryption under c2s: another session's key, 27 bytes,
\* a flipped bit in the tag, a byte of the ciphertext replaced
BadBlobs ==
    {encryptAesGcm(OtherKey, JsonText(Cmd("DEL", PathF))),
     SubSeq(GoodBlob, 1, 27),
     [GoodBlob EXCEPT ![Len(GoodBlob)].b = 0],
     [GoodBlob EXCEPT ![NonceLen + 1] = Byte(9)]}

BadFrames == {encodeFrame(blob) : blob \in BadBlobs}

\* a frame whose plaintext JSON.parse rejects
UnparsableFrame == encodeFrame(encryptAesGcm(C2S, NoText))

\* valid JSON that is no well-formed command
SchemaViolations ==
    {[Blank EXCEPT !.has = {}],
     [Blank EXCEPT !.kind = "null"],
     [Blank EXCEPT !.kind = "number"],
     [PutChunkMsg(PathF, 0, <<7>>) EXCEPT !.has = @ \ {"data"}],
     Obj("PUT_BEGIN", {"size"}), Obj("GET_BEGIN", {}), Obj("LIST", {}), Obj("DEL", {})}

\* another spelling of the path of f
PathAlias == P(<<"s", "..", "f">>)

FaultMessages ==
    SchemaViolations
        \cup {Obj("FOO", {}), Obj("BYE", {}), Cmd("DEL", PathF),
              PutBeginMsg(PathF, 1), PutChunkMsg(PathF, 0, <<7>>),
              PutChunkMsg(PathAlias, 0, <<7>>), Cmd("PUT_END", PathF)}

\* the length prefix of a frame longer than the maximum
OversizePrefix == Bytes(UInt32BE(MaxFrameLength + 1))

FaultChunks ==
    IF peer.n = 0 THEN {ClientHelloLine}
    ELSE IF peer.n = 1
    THEN {Frame(C2S, Auth("user", "pass")), UnparsableFrame} \cup BadFrames
    ELSE BadFrames
            \cup {Frame(C2S, m) : m \in FaultMessages}
            \cup {UnparsableFrame, OversizePrefix,
                  encodeFrame(SubSeq(GoodBlob, 1, 27)) \o Frame(C2S, Cmd("DEL", PathF)),
                  Frame(C2S, Obj("BYE", {})) \o Frame(C2S, Cmd("DEL", PathF)),
                  Frame(C2S, PutBeginMsg(PathF, 1)) \o Frame(C2S, Cmd("PUT_END", PathF))}

InitFrames ==
    /\ InitSession
    /\ inodes[1] = LongContent
    /\ appendMode = FALSE
    /\ peer = [n |-> 0, closed |-> FALSE, last |-> <<>>]
    /\ client = ClientOff
    /\ stream = StreamOff
    /\ box = BoxOff

\* the peer sends its next chunk; last remembers it
PeerSendFrames ==
    /\ ~peer.closed
    /\ peer.n < MaxItems
    /\ \E chunk \in FaultChunks :
          /\ OnData(chunk)
          /\ peer' = [peer EXCEPT !.n = @ + 1, !.last = chunk]
    /\ UNCHANGED <<client, stream, box>>

NextFrames ==
    \/ PeerSendFrames
    \/ HandshakeTimeout
    \/ OnClose
    \/ \E t \in tasks : FsDone(t)
    \/ PeerClose

SpecFrames == InitFrames /\ [][NextFrames]_vars

-----------------------------------------------------------------------------
(* An authenticated peer that uploads: to a file, onto a directory, outside *)

PutMessages ==
    {PutBeginMsg(q, 1) : q \in {PathF, PathS, PathOut}}
        \cup {PutChunkMsg(q, 0, <<7>>) : q \in {PathF, PathS, PathOut}}
        \cup {Cmd("PUT_END", q) : q \in {PathF, PathS}}

UploadChunks ==
    IF peer.n = 0 THEN {ClientHelloLine}
    ELSE IF peer.n = 1 THEN {Frame(C2S, Auth("user", "pass"))}
    ELSE {Frame(C2S, m) : m \in PutMessages}

InitPut ==
    /\ InitSession
    /\ inodes[1] = LongContent
    /\ peer = [n |-> 0, closed |-> FALSE]
    /\ client = ClientOff
    /\ stream = StreamOff
    /\ box = BoxOff

PeerSendPut ==
    /\ ~peer.closed
    /\ peer.n < MaxItems
    /\ \E chunk \in UploadChunks : OnData(chunk)
    /\ peer' = [peer EXCEPT !.n = @ + 1]
    /\ UNCHANGED <<client, stream, box>>

NextPut ==
    \/ PeerSendPut
    \/ HandshakeTimeout
    \/ OnClose
    \/ \E t \in tasks : FsDone(t)
    \/ PeerClose

SpecPut == InitPut /\ [][NextPut]_vars

-----------------------------------------------------------------------------
(* A LeoClient's correlation of inbound messages with nextMessage calls    *)

InitBox ==
    /\ InitSession
    /\ inodes[1] = LongContent
    /\ appendMode = FALSE
    /\ peer = [n |-> 0, closed |-> FALSE]
    /\ client = ClientOff
    /\ stream = StreamOff
    /\ box = BoxOff

\* some method of the client awaits nextMessage
BoxCall ==
    /\ box.issued < MaxCalls
    /\ box' = boxNextMessage(box, box.issued + 1)
    /\ UNCHANGED <<sessionVars, peer, client, stream>>

\* a chunk arrives that completes one or two frames; none arrives once the
\* socket has closed or failed
BoxData ==
    /\ ~box.closed
    /\ \E n \in 1..2 :
          /\ box.inbound + n <= MaxInbound
          /\ box' = boxOnData(box, n)
    /\ UNCHANGED <<sessionVars, peer, client, stream>>

\* the timer of a call fires
BoxTimer ==
    /\ \E k \in box.timers : box' = boxTimeout(box, k)
    /\ UNCHANGED <<sessionVars, peer, client, stream>>

\* the socket emits 'error' or 'close': at most one of each
BoxClose ==
    /\ box.closes < 2
    /\ box' = boxSocketClosed(box)
    /\ UNCHANGED <<sessionVars, peer, client, stream>>

NextBox == BoxCall \/ BoxData \/ BoxTimer \/ BoxClose

SpecBox == InitBox /\ [][NextBox]_vars

-----------------------------------------------------------------------------
(* LeoClient.get against a server that replies whatever it likes.  The     *)
(* peer is that server; replies are the messages it has sent.              *)

GetReplies ==
    {[type |-> "GET_META", path |-> PathF, size |-> n] : n \in 0..2}
    \cup {[type |-> "GET_META", path |-> PathF]}
    \cup {[type |-> "GET_CHUNK", path |-> PathF, offset |-> o, data |-> Base64Encode(d)] :
              o \in 0..1, d \in {<<1>>, <<1, 2>>}}
    \cup {[type |-> "GET_END", path |-> PathF],
          [type |-> "ERROR", error |-> MessageOf("FILE_NOT_FOUND"),
           errorCode |-> "FILE_NOT_FOUND", message |-> MessageOf("FILE_NOT_FOUND")],
          [type |-> "PUT_OK", path |-> PathF]}

InitGet ==
    /\ InitSession
    /\ inodes[1] = LongContent
    /\ appendMode = FALSE
    /\ peer = [n |-> 0, closed |-> FALSE, replies |-> <<>>]
    /\ client = [ClientOff EXCEPT !.pc = "idle", !.stage = 2, !.remote = PathF,
                                  !.clientToServerKey = C2S, !.serverToClientKey = S2C]
    /\ stream = StreamOff
    /\ box = BoxOff

\* the client's get is running or still to be called
GetOpen == client.pc \in {"getMeta", "getBody"} \/ (client.pc = "idle" /\ client.stage = 2)

GetCall ==
    /\ client.pc = "idle" /\ client.stage = 2
    /\ client' = get(client, client.remote)
    /\ UNCHANGED <<sessionVars, peer, stream, box>>

\* the server sends a message and the client's socket emits 'data' with it
GetReply ==
    /\ GetOpen /\ ~client.closed
    /\ Len(peer.replies) < MaxReplies
    /\ \E m \in GetReplies :
          /\ peer' = [peer EXCEPT !.replies = Append(@, m)]
          /\ client' = clientOnData(client, Frame(S2C, m))
    /\ UNCHANGED <<sessionVars, stream, box>>

\* the client's socket emits 'close'
GetClosed ==
    /\ ~client.closed
    /\ client' = onSocketClosed(client)
    /\ UNCHANGED <<sessionVars, peer, stream, box>>

NextGet == GetCall \/ GetReply \/ ClientTimeout \/ GetClosed

SpecGet == InitGet /\ [][NextGet]_vars

-----------------------------------------------------------------------------
(* Reflection: a peer that sends the session's own frames back to it, and  *)
(* a client that is handed the frames it wrote itself.  peer.echo is the   *)
(* number of the write the peer's last chunk starts with (0: none).        *)

ReflectCommands ==
    {Auth("user", "pass"), Auth("user", "bad"), Obj("INFO", {}), Cmd("DEL", PathM)}

\* the frames of the session the peer has received
Echoes == {k \in 1..Len(sent) : sent[k].kind = "frame" /\ sent[k].delivered}

InitReflect ==
    /\ InitSession
    /\ inodes[1] = LongContent
    /\ appendMode = FALSE
    /\ peer = [n |-> 0, closed |-> FALSE, last |-> <<>>, echo |-> 0]
    /\ client = [ClientOff EXCEPT !.pc = "idle", !.clientToServerKey = C2S,
                                  !.serverToClientKey = S2C]
    /\ stream = StreamOff
    /\ box = BoxOff

\* the peer sends CLIENT_HELLO, then commands of its own
PeerSendOwn ==
    /\ ~peer.closed
    /\ peer.n < MaxItems
    /\ \E chunk \in IF peer.n = 0 THEN {ClientHelloLine}
                     ELSE {Frame(C2S, m) : m \in ReflectCommands} :
          /\ OnData(chunk)
          /\ peer' = [peer EXCEPT !.n = @ + 1, !.last = chunk, !.echo = 0]
    /\ UNCHANGED <<client, stream, box>>

\* the peer sends back a frame the session wrote, alone or followed by a
\* command of its own in the same chunk
PeerReflect ==
    /\ ~peer.closed
    /\ peer.n < MaxItems
    /\ \E k \in Echoes :
        \E rest \in {<<>>, Frame(C2S, Obj("INFO", {}))} :
          /\ OnData(WireBytes(sent[k]) \o rest)
          /\ peer' = [peer EXCEPT !.n = @ + 1, !.last = WireBytes(sent[k]) \o rest,
                                  !.echo = k]
    /\ UNCHANGED <<client, stream, box>>

\* the client's socket emits 'data' with a frame the client wrote
ClientReflected ==
    /\ client.pc \notin {"crashed"}
    /\ \E i \in 1..Len(client.out) :
          client' = clientOnData(client, client.out[i])
    /\ UNCHANGED <<sessionVars, peer, stream, box>>

NextReflect ==
    \/ PeerSendOwn
    \/ PeerReflect
    \/ ClientAuth
    \/ ClientReflected
    \/ HandshakeTimeout
    \/ OnClose
    \/ \E t \in tasks : FsDone(t)
    \/ PeerClose

SpecReflect == InitReflect /\ [][NextReflect]_vars

-----------------------------------------------------------------------------
(* A download of f next to an upload that truncates it.  The record of     *)
(* the session's writes keeps only the newest MaxSent entries, so that a   *)
(* session that writes for ever has finitely many states.  Filesystem      *)
(* calls complete: the thread pool serves every pending call.              *)

\* what the peer sends, chunk by chunk
LoopScript ==
    <<ClientHelloLine, Frame(C2S, Auth("user", "pass")),
      Frame(C2S, Cmd("GET_BEGIN", PathF)), Frame(C2S, PutBeginMsg(PathF, 1))>>

\* the n newest entries of a log
Newest(log, n) == SubSeq(log, Max(1, Len(log) - n + 1), Len(log))

InitLoop ==
    /\ InitSession
    /\ inodes[1] = LongContent
    /\ appendMode = FALSE
    /\ peer = [n |-> 0, closed |-> FALSE]
    /\ client = ClientOff
    /\ stream = StreamOff
    /\ box = BoxOff

PeerSendLoop ==
    /\ ~peer.closed
    /\ peer.n < Len(LoopScript)
    /\ OnData(LoopScript[peer.n + 1])
    /\ peer' = [peer EXCEPT !.n = @ + 1]
    /\ UNCHANGED <<client, stream, box>>

\* a pending filesystem call of task t completes
FsDoneLoop(t) ==
    /\ ~crashed
    /\ \E S \in {[StepTask(St, t) EXCEPT !.sent = Newest(@, MaxSent)]} : Becomes(S)
    /\ UNCHANGED <<peer, client, stream, box>>

NextLoop ==
    \/ PeerSendLoop
    \/ HandshakeTimeout
    \/ OnClose
    \/ \E t \in tasks : FsDoneLoop(t)
    \/ PeerClose

SpecLoop == InitLoop /\ [][NextLoop]_vars /\ WF_vars(\E t \in tasks : FsDoneLoop(t))

-----------------------------------------------------------------------------
(* The frame decoder on its own: a stream of encoded frames cut into chunks *)

\* payloads of the stream; <<0,0,0,0>> reads as the prefix of an empty frame
CodecPayloads ==
    {Bytes(<<>>), Bytes(<<7>>), Bytes(<<1, 0>>), Bytes(<<0, 0, 0, 0>>)}

RECURSIVE SeqsUpTo(_, _)
SeqsUpTo(set, n) ==
    IF n = 0 THEN {<<>>}
    ELSE LET shorter == SeqsUpTo(set, n - 1) IN
         shorter \union {Append(q, x) : q \in shorter, x \in set}

\* encodeFrame(B1) || ... || encodeFrame(Bn)
EncodeAll(payloads) == Flatten([i \in 1..Len(payloads) |-> encodeFrame(payloads[i])])

InitCodec ==
    /\ InitSession
    /\ inodes[1] = LongContent
    /\ appendMode = FALSE
    /\ peer = [n |-> 0, closed |-> FALSE]
    /\ client = ClientOff
    /\ stream \in {[StreamOff EXCEPT !.payloads = ps, !.wire = EncodeAll(ps)] :
                        ps \in SeqsUpTo(CodecPayloads, MaxFrames)}
    /\ box = BoxOff

\* one chunk of the stream arrives: append to the remainder, peel off the frames
CodecFeed ==
    /\ \E k \in 1..Len(stream.wire) :
          LET chunk == SubSeq(stream.wire, 1, k)
              r == consumeFrames(stream.buffer \o chunk)
          IN stream' = [stream EXCEPT
                          !.wire = Drop(stream.wire, k),
                          !.buffer = r.remaining,
                          !.frames = @ \o r.frames,
                          !.splitPrefix = @ \/ Len(r.remaining) \in 1..3,
                          !.splitPayload = @ \/ Len(r.remaining) > 4]
    /\ UNCHANGED <<sessionVars, peer, client, box>>

NextCodec == CodecFeed

SpecCodec == InitCodec /\ [][NextCodec]_vars

-----------------------------------------------------------------------------
(* Vocabulary of the properties                                            *)

Last(seq) == seq[Len(seq)]

\* what the session wrote for frame number r, in order
Replies(r) == SelectSeq(sent, LAMBDA e : e.req = r)

\* the step dispatches exactly one inbound frame, which decrypted and parsed
HandlesOne == nextReq' = nextReq + 1 /\ reqLog'[nextReq'].how = "routed"
Handled == reqLog'[nextReq'].msg

\* a JSON object with a type
IsCommand(m) == m.kind = "object" /\ "type" \in m.has /\ m.type # ""

\* the step writes exactly one frame, carrying message m
WritesOnly(m) == Len(sent') = Len(sent) + 1 /\ SubSeq(sent', 1, Len(sent)) = sent
                 /\ Last(sent').kind = "frame" /\ Last(sent').msg = m
                 /\ Last(sent').req = nextReq'

\* the line is a CLIENT_HELLO as the protocol defines it
ValidHello(line) ==
    /\ Len(line) = 1 /\ line[1].pt.json
    /\ LET m == line[1].pt.v IN
        /\ m.kind = "object"
        /\ m.has = {"type", "version", "cipher", "kex", "clientPublicKey"}
        /\ m.type = "CLIENT_HELLO" /\ m.version = 1 /\ m.cipher = "AES-256-GCM"
        /\ m.kex = "X25519" /\ m.clientPublicKey = "spki"

-----------------------------------------------------------------------------
\* C3: in AwaitAuth every command other than AUTH is answered with
\* ERROR{UNAUTHORIZED} and nothing else happens: no storage call is started,
\* and the authenticated flag, the upload map and the socket are unchanged.
C3_AuthGate ==
    [][ (HandlesOne /\ ~authed /\ IsCommand(Handled) /\ Handled.type # "AUTH")
        => /\ WritesOnly([type |-> "ERROR", error |-> "Authentification requise",
                          errorCode |-> "UNAUTHORIZED", message |-> "Authentification requise"])
           /\ authed' = authed
           /\ ongoingUploads' = ongoingUploads
           /\ socket' = socket
           /\ tasks' = tasks /\ fsLog' = fsLog /\ fs' = fs /\ inodes' = inodes ]_vars

\* a PUT_BEGIN and a BYE were both refused before authentication, and the session is still open
C3_Witness ==
    /\ ~authed /\ socket = "open" /\ ~closed
    /\ \E i, j \in 1..Len(reqLog) :
        /\ reqLog[i].msg.type = "PUT_BEGIN" /\ reqLog[j].msg.type = "BYE"
        /\ Len(Replies(i)) = 1 /\ Replies(i)[1].msg.errorCode = "UNAUTHORIZED"
        /\ Len(Replies(j)) = 1 /\ Replies(j)[1].msg.errorCode = "UNAUTHORIZED"

\* C4: in AwaitAuth, an AUTH carrying the configured username and password is
\* answered with AUTH_OK and authenticates the session; any other AUTH is
\* answered with AUTH_ERROR{AUTH_INVALID_CREDENTIALS} and leaves the session
\* unauthenticated with its socket open, whatever failed before.
C4_AuthOutcomes ==
    [][ (HandlesOne /\ ~authed /\ IsCommand(Handled) /\ Handled.type = "AUTH")
        => IF /\ {"username", "password"} \subseteq Handled.has
              /\ Handled.username = Credentials.username
              /\ Handled.password = Credentials.password
           THEN authed' /\ WritesOnly([type |-> "AUTH_OK"]) /\ Last(sent').delivered
           ELSE /\ ~authed'
                /\ Len(sent') = Len(sent) + 1 /\ SubSeq(sent', 1, Len(sent)) = sent
                /\ Last(sent').msg.type = "AUTH_ERROR"
                /\ Last(sent').msg.errorCode = "AUTH_INVALID_CREDENTIALS"
                /\ Last(sent').delivered
                /\ socket' = "open" /\ ~closed' ]_vars

\* two AUTH attempts failed and a third one then succeeded on the same connection
C4_Witness ==
    /\ authed /\ Len(reqLog) = 3
    /\ \A i \in 1..3 : reqLog[i].msg.type = "AUTH"
    /\ Replies(1)[1].msg.type = "AUTH_ERROR"
    /\ Replies(2)[1].msg.type = "AUTH_ERROR"
    /\ Replies(3)[1].msg.type = "AUTH_OK"

\* C8: whatever first line is no valid CLIENT_HELLO, the server writes
\* nothing, destroys the socket, never completes the handshake, and the
\* server process survives.
C8_HandshakeRejection ==
    \A i \in 1..Len(helloLog) :
        ~ValidHello(helloLog[i])
            => sent = <<>> /\ socket = "destroyed" /\ ~handshakeComplete /\ ~crashed

\* C9: at most one SERVER_HELLO is written, it is the first write and answers
\* a valid CLIENT_HELLO; no frame is written before it, and nothing received
\* before the handshake completed is taken as a frame.
C9_HandshakeOrdering ==
    /\ Cardinality({i \in 1..Len(sent) : sent[i].kind = "line"}) <= 1
    /\ \A i \in 1..Len(sent) : (sent[i].kind = "line") = (i = 1)
    /\ sent # <<>> => \E j \in 1..Len(helloLog) : ValidHello(helloLog[j])
    /\ ~handshakeComplete => nextReq = 0 /\ frameBuffer = <<>> /\ sent = <<>>

\* the SERVER_HELLO was followed by two encrypted replies
C9_Witness ==
    /\ handshakeComplete /\ Len(sent) >= 3
    /\ sent[1].kind = "line" /\ sent[2].kind = "frame" /\ sent[3].kind = "frame"

\* AwaitHello: the handshake has not completed and the connection is not closed
AwaitHello == ~handshakeComplete /\ socket # "destroyed"

\* C10: the handshake timer stays armed as long as the session is in
\* AwaitHello, it only fires while the handshake has not completed and the
\* socket is destroyed once it fired, it is cleared when the handshake
\* completes, and every connection eventually leaves AwaitHello.
C10_HandshakeTimeout ==
    /\ [](AwaitHello => handshakeTimeout = "armed")
    /\ [][handshakeTimeout' = "fired" /\ handshakeTimeout # "fired"
            => ~handshakeComplete /\ socket' = "destroyed" /\ ~handshakeComplete']_vars
    /\ [](handshakeComplete => handshakeTimeout = "cleared")
    /\ <>(~AwaitHello)

\* the timer fired on a peer whose bytes never contained a newline
C10_Witness ==
    /\ handshakeTimeout = "fired" /\ socket = "destroyed" /\ ~handshakeComplete
    /\ handshakeBuffer # <<>> /\ helloLog = <<>>

-----------------------------------------------------------------------------
(* Properties of the file commands                                         *)

\* C1: once put(S) has returned on PUT_OK, a get of the same remote path
\* that returns has received exactly S, whatever the order in which the
\* filesystem calls of the session complete.
C1_RoundTrip == client.stage = 3 => client.result = client.data

\* the path resolves, segment by segment, outside the storage root
Escapes(path) == ~Inside(PathResolve(BasePath, path), BasePath)

\* frame number i is a command of the given types handled by an authenticated session
IsRequest(i, types) ==
    /\ reqLog[i].how = "routed" /\ reqLog[i].authed
    /\ IsCommand(reqLog[i].msg) /\ reqLog[i].msg.type \in types

\* the step writes exactly one frame, carrying message m, for frame number r
WritesFor(r, m) ==
    /\ Len(sent') = Len(sent) + 1 /\ SubSeq(sent', 1, Len(sent)) = sent
    /\ Last(sent').kind = "frame" /\ Last(sent').msg = m /\ Last(sent').req = r

ErrorMsg(code, text) == [type |-> "ERROR", error |-> text, errorCode |-> code, message |-> text]
DelErrorMsg(path, code, text) ==
    [type |-> "DEL_ERROR", path |-> path, errorCode |-> code, message |-> text, error |-> text]

\* the step is the completion of a filesystem call of task t
Completes(t) == t \in tasks /\ t \notin tasks' /\ nextReq' = nextReq /\ ~crashed'

\* C2: a storage command whose path resolves outside the root is refused
\* with INVALID_PATH and issues no filesystem call at all.
C2_PathSafety ==
    \A i \in 1..Len(reqLog) :
        (/\ IsRequest(i, {"PUT_BEGIN", "PUT_CHUNK", "GET_BEGIN", "LIST", "DEL"})
         /\ "path" \in reqLog[i].msg.has
         /\ Escapes(reqLog[i].msg.path)
         /\ ~(Replies(i) # <<>> /\ Replies(i)[1].msg.type = "ERROR"
                /\ Replies(i)[1].msg.errorCode = "UPLOAD_NOT_INITIALIZED"))
        => /\ \A x \in fsLog : x[3] # i
           /\ Len(Replies(i)) = 1
           /\ Replies(i)[1].msg.type \in {"ERROR", "DEL_ERROR"}
           /\ Replies(i)[1].msg.errorCode = "INVALID_PATH"

\* C5: a DEL of an authenticated session is answered once, by DEL_OK{path}
\* when the regular file was removed, else by DEL_ERROR{path, errorCode,
\* message, error = message} whose code tells the failure: INVALID_PATH,
\* at once and without a filesystem call, for a path that resolves outside
\* the root, FILE_NOT_FOUND for a missing file, NOT_A_FILE for a directory;
\* a failure removes nothing, the generic ERROR is never used and the
\* session stays authenticated.
C5_DelReply ==
    /\ [](\A i \in 1..Len(reqLog) : IsRequest(i, {"DEL"}) =>
            /\ Len(Replies(i)) <= 1
            /\ (\A t \in tasks : t.req # i) => Len(Replies(i)) = 1
            /\ \A k \in 1..Len(Replies(i)) :
                LET m == Replies(i)[k].msg IN
                /\ m.type \in {"DEL_OK", "DEL_ERROR"}
                /\ m.path = reqLog[i].msg.path
                /\ m.type = "DEL_ERROR" => m.error = m.message)
    /\ [][ (HandlesOne /\ authed /\ IsCommand(Handled) /\ Handled.type = "DEL"
                /\ "path" \in Handled.has)
           => /\ authed' /\ socket' = socket /\ fs' = fs /\ inodes' = inodes
              /\ IF Escapes(Handled.path)
                 THEN /\ WritesFor(nextReq', DelErrorMsg(Handled.path, "INVALID_PATH",
                                                         MessageOf("INVALID_PATH")))
                      /\ tasks' = tasks /\ fsLog' = fsLog
                 ELSE sent' = sent /\ \E t \in tasks' : t.req = nextReq' /\ t.kind = "DEL" ]_vars
    /\ [][ \A t \in tasks : (Completes(t) /\ t.kind = "DEL") =>
            /\ authed' = authed /\ socket' = socket
            /\ IF ~Exists(St, t.full)
               THEN /\ WritesFor(t.req, DelErrorMsg(t.path, "FILE_NOT_FOUND", "Fichier introuvable"))
                    /\ fs' = fs /\ inodes' = inodes
               ELSE IF IsDir(St, t.full)
               THEN /\ WritesFor(t.req, DelErrorMsg(t.path, "NOT_A_FILE",
                                                    "Le chemin vise n'est pas un fichier"))
                    /\ fs' = fs /\ inodes' = inodes
               ELSE IF t.pc = "stat"
               THEN sent' = sent /\ fs' = fs /\ inodes' = inodes
               ELSE /\ WritesFor(t.req, [type |-> "DEL_OK", path |-> t.path])
                    /\ DOMAIN fs' = DOMAIN fs \ {t.full}
                    /\ \A q \in DOMAIN fs' : fs'[q] = fs[q] ]_vars

\* the decoded length of a GET_CHUNK
ChunkLen(m) == Len(Base64Decode(m.data))

RECURSIVE SumLen(_)
SumLen(rs) == IF rs = <<>> THEN 0 ELSE ChunkLen(Head(rs).msg) + SumLen(Tail(rs))

\* C6: what a GET that is not refused emits: GET_META{path, n}, then chunks
\* of at most ChunkSize bytes at offsets 0, then previous offset plus
\* previous length, strictly increasing and summing to n, then one GET_END.
C6_GetStream ==
    \A i \in 1..Len(reqLog) :
        LET rs == Replies(i)
            chunks == SelectSeq(rs, LAMBDA e : e.msg.type = "GET_CHUNK")
        IN  (/\ IsRequest(i, {"GET_BEGIN"})
             /\ rs # <<>>
             /\ \A k \in 1..Len(rs) : rs[k].msg.type # "ERROR")
            => /\ rs[1].msg.type = "GET_META"
               /\ \A k \in 1..Len(rs) : rs[k].msg.path = reqLog[i].msg.path
               /\ \A k \in 2..Len(rs) :
                    \/ rs[k].msg.type = "GET_CHUNK"
                    \/ rs[k].msg.type = "GET_END" /\ k = Len(rs)
               /\ \A k \in 1..Len(chunks) :
                    /\ ChunkLen(chunks[k].msg) <= ChunkSize
                    /\ ChunkLen(chunks[k].msg) > 0
                    /\ chunks[k].msg.offset = SumLen(SubSeq(chunks, 1, k - 1))
               /\ SumLen(chunks) <= rs[1].msg.size
               /\ Last(rs).msg.type = "GET_END" => SumLen(chunks) = rs[1].msg.size

\* C7: a GET whose storage call fails gets exactly one ERROR with the mapped
\* code and nothing after it; the stream is abandoned; a failure of the size
\* read (missing file, directory) or a refused path leaves no GET_META; the
\* session stays authenticated and open.
C7_GetFailure ==
    /\ [](\A i \in 1..Len(reqLog) : IsRequest(i, {"GET_BEGIN"}) =>
            \A k \in 1..Len(Replies(i)) :
                Replies(i)[k].msg.type = "ERROR"
                    => k = Len(Replies(i)) /\ \A t \in tasks : t.req # i)
    /\ [][ (HandlesOne /\ authed /\ IsCommand(Handled) /\ Handled.type = "GET_BEGIN"
                /\ "path" \in Handled.has)
           => /\ authed' /\ socket' = socket
              /\ \/ sent' = sent /\ \E t \in tasks' : t.req = nextReq' /\ t.kind = "GET"
                 \/ /\ WritesFor(nextReq', ErrorMsg("INVALID_PATH", MessageOf("INVALID_PATH")))
                    /\ Escapes(Handled.path) /\ tasks' = tasks ]_vars
    /\ [][ \A t \in tasks : (Completes(t) /\ t.kind = "GET" /\ t.pc \in {"stat", "open"}) =>
            /\ authed' = authed /\ socket' = socket
            /\ ~Exists(St, t.full) =>
                /\ WritesFor(t.req, ErrorMsg("FILE_NOT_FOUND", "Fichier introuvable"))
                /\ \A u \in tasks' : u.req # t.req
                /\ t.pc = "stat" => Len(SelectSeq(sent', LAMBDA e : e.req = t.req)) = 1
            /\ (t.pc = "stat" /\ IsDir(St, t.full)) =>
                /\ WritesFor(t.req, ErrorMsg("NOT_A_FILE", "Le chemin vise n'est pas un fichier"))
                /\ \A u \in tasks' : u.req # t.req
                /\ Len(SelectSeq(sent', LAMBDA e : e.req = t.req)) = 1 ]_vars

\* a GET failed in the middle of its stream: GET_META, then ERROR{FILE_NOT_FOUND}
C7_Witness ==
    \E i \in 1..Len(reqLog) :
        /\ IsRequest(i, {"GET_BEGIN"})
        /\ Len(Replies(i)) >= 2
        /\ Replies(i)[1].msg.type = "GET_META"
        /\ Last(Replies(i)).msg.type = "ERROR"
        /\ Last(Replies(i)).msg.errorCode = "FILE_NOT_FOUND"

\* C14: however the encoded stream of B1..Bn is cut into chunks, the frames
\* decoded so far are B1..Bk in order, the remainder is exactly the bytes of the
\* stream consumed after them, which are a proper prefix of the encoding of
\* B(k+1), and at the end of the stream all n frames are out and nothing remains
C14_StreamingDecode ==
    LET all == EncodeAll(stream.payloads)
        fed == Len(all) - Len(stream.wire)
        k == Len(stream.frames)
    IN /\ k <= Len(stream.payloads)
       /\ \A i \in 1..k : stream.frames[i] = stream.payloads[i]
       /\ EncodeAll(stream.frames) \o stream.buffer = SubSeq(all, 1, fed)
       /\ IF k < Len(stream.payloads)
          THEN Len(stream.buffer) < Len(encodeFrame(stream.payloads[k + 1]))
          ELSE stream.buffer = <<>>
       /\ stream.wire = <<>> => stream.frames = stream.payloads /\ stream.buffer = <<>>

\* a stream of two frames decoded to its end after a chunk ended inside a
\* length prefix and another inside a payload
C14_Witness ==
    /\ Len(stream.payloads) = 2
    /\ stream.wire = <<>>
    /\ stream.splitPrefix
    /\ stream.splitPayload
    /\ stream.frames = stream.payloads

\* the step delivers one chunk, holding exactly the bytes of the set, to a
\* session that finished the handshake and has no bytes of a frame pending
Receives(chunks) ==
    /\ peer'.n = peer.n + 1 /\ peer'.last \in chunks
    /\ handshakeComplete /\ frameBuffer = <<>>

\* C11: a frame that fails decryption under c2s (a 27-byte blob, a damaged
\* tag or ciphertext, another key) makes the server destroy the socket; it
\* writes nothing, hands nothing to a command handler and starts no storage call.
C11_AeadFailure ==
    [][ Receives(BadFrames)
        => /\ socket' = "destroyed"
           /\ sent' = sent
           /\ nextReq' = nextReq + 1
           /\ reqLog'[nextReq'].how = "undecryptable" /\ reqLog'[nextReq'].msg = Blank
           /\ tasks' = tasks /\ fsLog' = fsLog /\ fs' = fs /\ inodes' = inodes
           /\ authed' = authed /\ ongoingUploads' = ongoingUploads ]_vars

\* an authenticated session was destroyed by a frame whose tag had a flipped
\* bit, having written only SERVER_HELLO and AUTH_OK
C11_Witness ==
    /\ peer.last = encodeFrame([GoodBlob EXCEPT ![Len(GoodBlob)].b = 0])
    /\ authed /\ socket = "destroyed"
    /\ Len(sent) = 2 /\ Last(sent).msg.type = "AUTH_OK"
    /\ Last(reqLog).how = "undecryptable"
    /\ fsLog = {}

\* C12: a frame that reaches a session already closed by a BYE or by a
\* decryption failure is not handed to a command handler, starts no storage
\* call and gets no reply.
C12_ClosedIsTerminal ==
    \A i \in 1..Len(reqLog) :
        reqLog[i].ended
            => /\ reqLog[i].how # "routed"
               /\ Replies(i) = <<>>
               /\ \A c \in fsLog : c[3] # i

\* C13: the session never keeps a length prefix that declares more than the
\* maximum frame length while its socket stays open, and its frame buffer
\* never holds more than 4 + maximum bytes.
C13_FrameOversize ==
    /\ (Len(frameBuffer) >= 4 /\ ReadUInt32BE(frameBuffer, 0) > MaxFrameLength)
            => socket # "open"
    /\ Len(frameBuffer) <= 4 + MaxFrameLength

\* the command types of the protocol
CommandTypes ==
    {"AUTH", "PUT_BEGIN", "PUT_CHUNK", "PUT_END", "GET_BEGIN", "LIST", "DEL", "INFO", "BYE"}

\* the session is in Ready
Ready == authed /\ socket = "open" /\ ~crashed

C16_MalformedJsonReply ==
    [][ (Receives({UnparsableFrame}) /\ socket = "open")
        => /\ WritesOnly(ErrorMsg("INVALID_MESSAGE", "Message illisible"))
           /\ Last(sent').delivered
           /\ Last(sent').key = serverToClientKey
           /\ reqLog'[nextReq'].how = "unparsable"
           /\ tasks' = tasks /\ fsLog' = fsLog ]_vars

\* the peer's last chunk was the unreadable frame and the last thing the
\* session wrote is the INVALID_MESSAGE error for it
C16_Witness ==
    /\ peer.last = UnparsableFrame
    /\ reqLog # <<>> /\ Last(reqLog).how = "unparsable"
    /\ Replies(Len(reqLog)) = <<Last(sent)>>
    /\ Last(sent).msg = ErrorMsg("INVALID_MESSAGE", "Message illisible")
    /\ Last(sent).delivered

\* C17: once a frame with unreadable JSON was received the session is
\* closed, and no frame after it is handed to a command handler.
C17_MalformedJsonCloses ==
    \A i \in 1..Len(reqLog) :
        reqLog[i].how = "unparsable"
            => /\ socket # "open"
               /\ \A j \in (i + 1)..Len(reqLog) : reqLog[j].how # "routed"

\* C18: in Ready, valid JSON that violates the schema is answered with
\* exactly one error reply, and the session is in Ready afterwards: the
\* failure neither escapes the handler nor closes the socket.
C18_SchemaViolation ==
    [][ (HandlesOne /\ Ready /\ Handled \in SchemaViolations)
        => /\ Len(sent') = Len(sent) + 1 /\ SubSeq(sent', 1, Len(sent)) = sent
           /\ Last(sent').req = nextReq'
           /\ Last(sent').msg.type \in {"ERROR", "DEL_ERROR"}
           /\ Last(sent').delivered
           /\ Ready' /\ ~closed' ]_vars

\* C19: in Ready a PUT_CHUNK whose path, as sent, has no upload entry is
\* answered with ERROR{UPLOAD_NOT_INITIALIZED}; no storage call is started,
\* nothing is written and no upload entry is created.
C19_ChunkWithoutUpload ==
    [][ (HandlesOne /\ Ready /\ IsCommand(Handled) /\ Handled.type = "PUT_CHUNK"
            /\ PathOf(Handled) \notin DOMAIN ongoingUploads)
        => /\ WritesOnly(ErrorMsg("UPLOAD_NOT_INITIALIZED", "PUT_BEGIN manquant"))
           /\ Last(sent').delivered
           /\ ongoingUploads' = ongoingUploads
           /\ tasks' = tasks /\ fsLog' = fsLog /\ fs' = fs /\ inodes' = inodes
           /\ Ready' ]_vars

\* a PUT_CHUNK for f that came after the PUT_END of f was refused, and no
\* storage call was ever made for it
C19_Witness ==
    \E i, j, k \in 1..Len(reqLog) :
        /\ i < j /\ j < k
        /\ IsRequest(i, {"PUT_BEGIN"}) /\ reqLog[i].msg.path = PathF
        /\ IsRequest(j, {"PUT_END"}) /\ reqLog[j].msg.path = PathF
        /\ IsRequest(k, {"PUT_CHUNK"}) /\ reqLog[k].msg.path = PathF
        /\ Len(Replies(k)) = 1
        /\ Replies(k)[1].msg.errorCode = "UPLOAD_NOT_INITIALIZED"
        /\ \A c \in fsLog : c[3] # k

\* the step handles a PUT_BEGIN, or a PUT_CHUNK that has an upload entry
HandlesPut ==
    /\ HandlesOne /\ Ready /\ IsCommand(Handled)
    /\ "path" \in Handled.has
    /\ \/ Handled.type = "PUT_BEGIN"
       \/ /\ Handled.type = "PUT_CHUNK" /\ "data" \in Handled.has
          /\ Handled.path \in DOMAIN ongoingUploads

\* the step writes exactly one ERROR for frame r, with a storage error code
WritesStorageError(r) ==
    \E c \in StorageCodes \cup {"INTERNAL_ERROR"} : WritesFor(r, ErrorMsg(c, MessageOf(c)))

\* the step is a filesystem call of the upload task t
PutStep(t) ==
    /\ t.kind \in {"PUT_BEGIN", "PUT_CHUNK"}
    /\ t \notin tasks' /\ nextReq' = nextReq /\ ~crashed'

\* the call was the last of the task and went well
PutSucceeded(t) ==
    \/ t.kind = "PUT_BEGIN" /\ t.pc = "writeFile"
          /\ t.full \in DOMAIN fs' /\ fs'[t.full].t = "file"
    \/ t.kind = "PUT_CHUNK" /\ t.pc = "close"

\* C20 as claimed: a PUT_BEGIN gets no message at all, a PUT_CHUNK gets none
\* but the UPLOAD_NOT_INITIALIZED of a chunk without upload entry, and a
\* PUT_END gets nothing but PUT_OK.
C20_PutUnreplied ==
    \A i \in 1..Len(reqLog) :
        /\ IsRequest(i, {"PUT_BEGIN"}) => Replies(i) = <<>>
        /\ IsRequest(i, {"PUT_CHUNK"})
              => \A k \in 1..Len(Replies(i)) :
                    Replies(i)[k].msg.errorCode = "UPLOAD_NOT_INITIALIZED"
        /\ IsRequest(i, {"PUT_END"})
              => \A k \in 1..Len(Replies(i)) : Replies(i)[k].msg.type = "PUT_OK"

\* C20 amended: handling a PUT_BEGIN or a PUT_CHUNK with an upload entry
\* writes nothing when a storage operation is started, and exactly one ERROR
\* with a storage error code when the path is refused; a filesystem call of
\* the operation writes exactly one ERROR with a storage error code when it
\* fails, which ends the operation, and nothing otherwise; a PUT_END is
\* answered with exactly PUT_OK.
C20_PutRepliesOnFailure ==
    [][ /\ HandlesPut
            => \/ /\ sent' = sent
                  /\ \E t \in tasks' \ tasks : t.req = nextReq' /\ t.kind = Handled.type
               \/ /\ tasks' = tasks /\ fsLog' = fsLog
                  /\ WritesStorageError(nextReq')
        /\ \A t \in tasks :
              PutStep(t)
                => IF (\A u \in tasks' : u.req # t.req) /\ ~PutSucceeded(t)
                   THEN WritesStorageError(t.req)
                   ELSE sent' = sent
        /\ (HandlesOne /\ Ready /\ IsCommand(Handled) /\ Handled.type = "PUT_END"
                /\ "path" \in Handled.has)
            => WritesOnly([type |-> "PUT_OK", path |-> Handled.path]) ]_vars

\* the PUT_BEGIN of f was carried out and got no message, and the PUT_BEGIN
\* of the directory s failed in writeFile and got exactly one ERROR{IO_ERROR}
C20_Witness ==
    \E i, j \in 1..Len(reqLog) :
        /\ IsRequest(i, {"PUT_BEGIN"}) /\ reqLog[i].msg.path = PathF
        /\ <<"writeFile", <<"d", "f">>, i>> \in fsLog
        /\ \A t \in tasks : t.req # i
        /\ Replies(i) = <<>>
        /\ IsRequest(j, {"PUT_BEGIN"}) /\ reqLog[j].msg.path = PathS
        /\ <<"writeFile", <<"d", "s">>, j>> \in fsLog
        /\ Len(Replies(j)) = 1
        /\ Replies(j)[1].msg = ErrorMsg("IO_ERROR", MessageOf("IO_ERROR"))

\* C21: in Ready a PUT_END{path} removes the upload entry of path, leaves
\* the other entries alone, starts no storage call and is answered with
\* exactly PUT_OK{path}, whatever was received and whether or not the path
\* had an entry.
C21_PutEnd ==
    [][ (HandlesOne /\ Ready /\ IsCommand(Handled) /\ Handled.type = "PUT_END"
            /\ "path" \in Handled.has)
        => /\ WritesOnly([type |-> "PUT_OK", path |-> Handled.path])
           /\ Last(sent').delivered
           /\ DOMAIN ongoingUploads' = DOMAIN ongoingUploads \ {Handled.path}
           /\ \A q \in DOMAIN ongoingUploads' : ongoingUploads'[q] = ongoingUploads[q]
           /\ tasks' = tasks /\ fsLog' = fsLog
           /\ Ready' ]_vars

\* an upload of f declared with size 1 was ended with no chunk received,
\* answered PUT_OK, and its entry is gone
C21_Witness ==
    /\ Len(reqLog) = 3
    /\ IsRequest(2, {"PUT_BEGIN"}) /\ reqLog[2].msg.path = PathF /\ reqLog[2].msg.size = 1
    /\ IsRequest(3, {"PUT_END"}) /\ reqLog[3].msg.path = PathF
    /\ Replies(3) = <<Last(sent)>>
    /\ Last(sent).msg = [type |-> "PUT_OK", path |-> PathF]
    /\ PathF \notin DOMAIN ongoingUploads

\* C22: the messages the session writes are in the order of the requests
\* they answer: nothing written for a request comes after something written
\* for a later request.
C22_ResponseOrdering ==
    \A k, l \in 1..Len(sent) : k < l => sent[k].req <= sent[l].req

\* C23: an authenticated session has completed the handshake, and no frame
\* was ever handed to the decoder of commands by a session that has not.
C23_AuthedImpliesHandshake ==
    /\ authed => handshakeComplete
    /\ reqLog # <<>> => handshakeComplete
    /\ ~handshakeComplete => nextReq = 0 /\ tasks = {} /\ fsLog = {}

\* the peer put its AUTH into the chunk of the CLIENT_HELLO: the handshake is
\* complete, the AUTH lies unread in the handshake buffer, nobody is authenticated
C23_WitnessEarlyAuth ==
    /\ handshakeComplete /\ ~authed
    /\ handshakeBuffer = Frame(C2S, Auth("user", "pass"))
    /\ reqLog = <<>>

\* C24: a session that completed the handshake holds both directional keys,
\* and they are two different keys: c2s and s2c of the key derivation.
C24_KeysSet ==
    handshakeComplete
        => /\ clientToServerKey # NoKey /\ serverToClientKey # NoKey
           /\ clientToServerKey # serverToClientKey
           /\ clientToServerKey = C2S /\ serverToClientKey = S2C

\* the handshake is complete and the session answered an AUTH encrypted under
\* c2s with a frame encrypted under s2c
C24_Witness ==
    /\ handshakeComplete /\ authed
    /\ clientToServerKey = C2S /\ serverToClientKey = S2C
    /\ Last(sent).kind = "frame" /\ Last(sent).key = S2C

\* the paths whose last PUT_BEGIN, handled by the authenticated session, has
\* no PUT_END of the same path after it
OpenUploads ==
    {PathOf(reqLog[i].msg) : i \in
        {i \in 1..Len(reqLog) :
            /\ IsRequest(i, {"PUT_BEGIN"})
            /\ \A j \in (i + 1)..Len(reqLog) :
                  ~(IsRequest(j, {"PUT_END"}) /\ PathOf(reqLog[j].msg) = PathOf(reqLog[i].msg))}}

\* C25: the upload map has an entry for a path exactly when a PUT_BEGIN of
\* that path was handled and no PUT_END of it since; no other command, and
\* no completion of a storage call, adds or removes an entry.
C25_UploadMap ==
    DOMAIN ongoingUploads = OpenUploads

\* the entry of f, made by PUT_BEGIN, is still there after a PUT_CHUNK for f
\* was handled and its storage calls are over
C25_Witness ==
    /\ Len(reqLog) = 3
    /\ IsRequest(2, {"PUT_BEGIN"}) /\ IsRequest(3, {"PUT_CHUNK"})
    /\ tasks = {} /\ \E c \in fsLog : c[1] = "write" /\ c[3] = 3
    /\ DOMAIN ongoingUploads = {PathF}

\* C26: once the session is closed it holds neither directional key and its
\* upload map is empty.
C26_CleanupOnClose ==
    closed => /\ clientToServerKey = NoKey /\ serverToClientKey = NoKey
              /\ DOMAIN ongoingUploads = {}

\* the authenticated session has handled a BYE
ByeHandled == \E i \in 1..Len(reqLog) : IsRequest(i, {"BYE"})

\* C27: in Ready a BYE writes nothing and ends the sending side of the
\* socket; no message is ever written for it; and once the peer has closed
\* its side too the session reaches its closed state.
C27_Bye ==
    /\ [][ (HandlesOne /\ Ready /\ IsCommand(Handled) /\ Handled.type = "BYE")
            => /\ sent' = sent
               /\ socket' = "ended"
               /\ tasks' = tasks /\ fsLog' = fsLog /\ ~closed' ]_vars
    /\ [](\A i \in 1..Len(reqLog) : IsRequest(i, {"BYE"}) => Replies(i) = <<>>)
    /\ ((ByeHandled /\ peer.closed) ~> closed)

\* BYE was handled without a reply, the peer closed its side, and the
\* session ran onClose
C27_Witness ==
    /\ Len(reqLog) = 2 /\ IsRequest(2, {"BYE"})
    /\ Len(sent) = 2 /\ Last(sent).msg.type = "AUTH_OK"
    /\ peer.closed /\ closed

\* C28: in Ready an INFO is answered with exactly one INFO_RESULT carrying
\* the ServerInfo of the process (protocolVersion 1 and the seven
\* capabilities by default), whatever was handled before, and changes
\* nothing of the session.
C28_Info ==
    [][ (HandlesOne /\ Ready /\ IsCommand(Handled) /\ Handled.type = "INFO")
        => /\ WritesOnly([type |-> "INFO_RESULT", version |-> ServerInfo.version,
                          protocolVersion |-> 1,
                          capabilities |-> <<"AUTH", "PUT", "GET", "LIST", "DEL", "INFO", "BYE">>,
                          storageRoot |-> BasePath])
           /\ Last(sent').delivered
           /\ UNCHANGED <<handshakeBuffer, frameBuffer, handshakeComplete, authed,
                          clientToServerKey, serverToClientKey, sessionId, ongoingUploads,
                          closed, handshakeTimeout, socket, tasks, fs, inodes, fsLog,
                          crashed>> ]_vars

\* INFO was answered with INFO_RESULT by a session that had begun an upload
\* of f before, and the upload entry is still there
C28_Witness ==
    /\ Len(reqLog) = 3
    /\ IsRequest(2, {"PUT_BEGIN"}) /\ IsRequest(3, {"INFO"})
    /\ Len(Replies(3)) = 1 /\ Replies(3)[1].msg.type = "INFO_RESULT"
    /\ Replies(3)[1].msg.protocolVersion = 1
    /\ PathF \in DOMAIN ongoingUploads

\* the calls of nextMessage that were resolved with message m
Receivers(m) == {k \in 1..MaxCalls : box.outcome[k] = Resolved(m)}

\* no call was rejected so far and the socket is open
Undisturbed ==
    ~box.closed /\ \A k \in 1..MaxCalls : box.outcome[k].st \in {"none", "pending", "message"}

\* C29: every inbound message is either the result of exactly one call of
\* nextMessage or waits once in the message queue; messages are handed out
\* in the order of the calls; as long as no call timed out and the socket is
\* open the k-th call has the k-th message, or is pending when fewer than k
\* arrived; and the waiter list and the message queue are never both
\* non-empty.
C29_FifoCorrelation ==
    /\ \A m \in 1..box.inbound :
          Cardinality(Receivers(m))
              + Cardinality({i \in 1..Len(box.messageQueue) : box.messageQueue[i] = m}) = 1
    /\ \A k, l \in 1..MaxCalls :
          (k < l /\ box.outcome[k].st = "message" /\ box.outcome[l].st = "message")
              => box.outcome[k].m < box.outcome[l].m
    /\ Undisturbed
          => /\ \A k \in 1..box.issued :
                    box.outcome[k] = IF k <= box.inbound THEN Resolved(k) ELSE Pending
             /\ box.waiters = [i \in 1..(box.issued - Min(box.issued, box.inbound))
                                  |-> box.inbound + i]
             /\ box.messageQueue = [i \in 1..(box.inbound - Min(box.issued, box.inbound))
                                       |-> box.issued + i]
    /\ ~(box.waiters # <<>> /\ box.messageQueue # <<>>)

\* two calls were pending when a chunk with two messages arrived, a third
\* message was queued and taken by the third call
C29_Witness ==
    /\ Undisturbed
    /\ box.issued = 3 /\ box.inbound = 3
    /\ \A k \in 1..3 : box.outcome[k] = Resolved(k)
    /\ box.waiters = <<>> /\ box.messageQueue = <<>> /\ box.timers = {}

\* C30: once the socket has closed or failed no call is pending, no timer
\* is set and the waiter list is empty.
C30_ClientClose ==
    box.closed
        => /\ box.waiters = <<>>
           /\ box.timers = {}
           /\ \A k \in 1..MaxCalls : box.outcome[k] # Pending

\* C31: after the first timeout of a nextMessage call no call made later is
\* resolved with a message, and the message that call was waiting for is
\* never the result of any call.
C31_TimeoutKills ==
    box.deadAt > 0
        => /\ \A l \in (box.deadAt + 1)..MaxCalls : box.outcome[l].st # "message"
           /\ \A l \in 1..MaxCalls : box.outcome[l] # Resolved(box.late)

\* the replies the get consumed: all up to the first that ended it
RECURSIVE Accumulated(_)
\* the buffer get builds from a sequence of GET_CHUNK messages
Accumulated(chunks) ==
    IF chunks = <<>> THEN <<>>
    ELSE CopyAt(Accumulated(SubSeq(chunks, 1, Len(chunks) - 1)),
                Last(chunks).offset, Base64Decode(Last(chunks).data))

\* get returned after writing the local file / get threw
GetWrote == client.stage = 3
GetFailed == client.pc = "failed"

\* the place of the GET_END that completed the get
EndPlace ==
    CHOOSE n \in 1..Len(peer.replies) :
        /\ peer.replies[n].type = "GET_END"
        /\ \A i \in 1..(n - 1) : peer.replies[i].type # "GET_END"

\* the local file is written only after GET_META, chunks without an ERROR
\* among them, and GET_END, and holds the accumulated bytes
GetWroteRightly ==
    GetWrote =>
        /\ Len(peer.replies) >= 2
        /\ peer.replies[1].type = "GET_META"
        /\ \E n \in 2..Len(peer.replies) : peer.replies[n].type = "GET_END"
        /\ \A i \in 2..(EndPlace - 1) : peer.replies[i].type = "GET_CHUNK"
        /\ client.result = Accumulated(SubSeq(peer.replies, 2, EndPlace - 1))

\* the errors get raises, and no file in any failing case
GetFailsRightly ==
    /\ (GetFailed /\ peer.replies # <<>>
            /\ peer.replies[1].type \notin {"GET_META", "ERROR", "AUTH_ERROR"})
        => client.error = "GET_META_MISSING"
    /\ (GetFailed /\ peer.replies # <<>> /\ peer.replies[1].type = "ERROR")
        => client.error = peer.replies[1].errorCode
    /\ (GetFailed /\ Len(peer.replies) >= 2 /\ peer.replies[1].type = "GET_META"
            /\ "size" \in DOMAIN peer.replies[1]
            /\ (\A i \in 2..(Len(peer.replies) - 1) : peer.replies[i].type = "GET_CHUNK")
            /\ Last(peer.replies).type = "GET_END")
        => client.error = "GET_INCOMPLETE"
    /\ client.error = "GET_INCOMPLETE"
        => Len(client.received) # peer.replies[1].size
    /\ ~GetWrote => client.result = <<>>

\* C32 as stated: get writes the local file only if the first reply was
\* GET_META, a GET_END was received, no ERROR arrived in between and the
\* accumulated length equals GET_META.size; the errors are GET_META_MISSING
\* and GET_INCOMPLETE; no file is written in a failing case.
C32_GetValidationAnySize ==
    /\ GetWroteRightly
    /\ GetWrote => /\ "size" \in DOMAIN peer.replies[1]
                   /\ Len(client.result) = peer.replies[1].size
    /\ GetFailsRightly

\* C32: the same, with the length compared only when GET_META carries a
\* size: get writes the local file only if the first reply was GET_META, a
\* GET_END was received, no ERROR arrived in between and, if GET_META.size
\* is set, the accumulated length equals it.
C32_GetValidation ==
    /\ GetWroteRightly
    /\ (GetWrote /\ "size" \in DOMAIN peer.replies[1])
            => Len(client.result) = peer.replies[1].size
    /\ GetFailsRightly

\* a get that wrote two bytes received in two chunks after GET_META{size: 2}
C32_Witness ==
    /\ GetWrote
    /\ Len(peer.replies) = 4
    /\ "size" \in DOMAIN peer.replies[1] /\ peer.replies[1].size = 2
    /\ client.result = <<1, 1>>

\* C33: a frame the session wrote and the peer sends back fails decryption:
\* the session destroys the socket and hands nothing of it to a command
\* handler, so every message the session routes is one the peer built under
\* c2s; and a frame the client wrote, handed to the client's onData, is
\* neither resolved to a waiter nor queued.
C33_NoReflection ==
    /\ [][ (peer'.n = peer.n + 1 /\ peer'.echo > 0)
            => /\ reqLog'[nextReq + 1].how = "undecryptable"
               /\ reqLog'[nextReq + 1].msg = Blank
               /\ socket' = "destroyed"
               /\ authed' = authed ]_vars
    /\ [](\A i \in 1..Len(reqLog) :
            reqLog[i].how = "routed" => reqLog[i].msg \in ReflectCommands)
    /\ [][ (client' # client /\ client'.out = client.out /\ client.out # <<>>)
            => /\ client'.pc = "crashed"
               /\ client'.messageQueue = client.messageQueue
               /\ client'.stage = client.stage ]_vars

\* the peer sent the session's AUTH_OK frame back and the session destroyed
\* the socket; the client was handed its own AUTH frame while waiting
C33_Witness ==
    /\ peer.echo = 2 /\ sent[2].msg.type = "AUTH_OK"
    /\ peer.last = WireBytes(sent[2])
    /\ Last(reqLog).how = "undecryptable" /\ socket = "destroyed"
    /\ client.pc = "crashed" /\ client.out = <<Frame(C2S, Auth("user", "pass"))>>

\* C34: once the handshake is complete no inbound byte is left in the
\* handshake buffer: what followed the newline of CLIENT_HELLO has been
\* handed to the frame reader (handled as frames or kept in frameBuffer).
C34_TwoStageStream ==
    handshakeComplete => handshakeBuffer = <<>>

\* C35: once the session has seen its socket close, a GET that was streaming
\* (its GET_META is written) starts no further readChunk and the session
\* attempts no further GET_CHUNK or GET_END for it.
C35_GetCancelled ==
    [][ closed
        => \A t \in tasks \ tasks' :
             (t.kind = "GET" /\ t.pc # "stat")
                => /\ \A k \in (Len(sent) + 1)..Len(sent') :
                        ~(sent'[k].req = t.req
                            /\ sent'[k].msg.type \in {"GET_CHUNK", "GET_END"})
                   /\ \A u \in tasks' \ tasks : ~(u.kind = "GET" /\ u.pc = "open") ]_vars

\* C36: the write of a chunk leaves the file with the chunk's bytes at the
\* chunk's offset and every other byte, of this and of every other file, as
\* it was, whatever the file's length before the write.
C36_PositionalWrite ==
    [][ \A t \in tasks \ tasks' :
          (t.kind = "PUT_CHUNK" /\ t.pc = "write")
             => /\ inodes'[t.ino] = WriteAtOffset(inodes[t.ino], t.data, t.offset)
                /\ \A n \in 1..MaxIno : n # t.ino => inodes'[n] = inodes[n] ]_vars

\* C37: when the session writes PUT_OK for a path no storage operation of an
\* earlier PUT_BEGIN or PUT_CHUNK for that path is still running, and a
\* chunk is written to the file only when the truncating write of the
\* PUT_BEGIN before it has completed.
C37_PutOkDurable ==
    /\ [][ \A k \in (Len(sent) + 1)..Len(sent') :
              sent'[k].msg.type = "PUT_OK"
                 => \A t \in tasks' :
                       ~(/\ t.kind \in {"PUT_BEGIN", "PUT_CHUNK"}
                         /\ t.path = sent'[k].msg.path
                         /\ t.req < sent'[k].req) ]_vars
    /\ [][ \A t \in tasks \ tasks' :
              (t.kind = "PUT_CHUNK" /\ t.pc = "write")
                 => \A b \in tasks :
                       ~(b.kind = "PUT_BEGIN" /\ b.full = t.full /\ b.req < t.req) ]_vars

\* C38: every GET that is being processed comes to an end: its task leaves
\* the session after GET_END or ERROR.
C38_GetTerminates ==
    (\E t \in tasks : t.kind = "GET") ~> (\A t \in tasks : t.kind # "GET")

\* entry e of the session's writes answers a PUT_BEGIN, PUT_CHUNK or PUT_END
PutReply(log, e) ==
    /\ e.req \in 1..Len(log)
    /\ log[e.req].how = "routed"
    /\ log[e.req].msg.type \in {"PUT_BEGIN", "PUT_CHUNK", "PUT_END"}

\* put has returned, or has thrown the error the session sent
PutOver ==
    \/ client.stage >= 2
    \/ client.stage = 1 /\ client.pc = "failed" /\ client.error # ""

\* C39: when put returns, or throws the error the session sent, no message
\* the session wrote for the put's PUT_BEGIN, PUT_CHUNK and PUT_END is left
\* in the message queue or on its way to the client; the session writes none
\* afterwards; and no put returns when the session wrote an ERROR for its
\* PUT_BEGIN or PUT_CHUNK.
C39_PutCorrelation ==
    /\ [][ (client.pc = "put" /\ PutOver')
           => /\ client'.messageQueue = <<>>
              /\ \A k \in (client'.rx + 1)..Len(sent') : ~PutReply(reqLog', sent'[k]) ]_vars
    /\ [][ PutOver
           => \A k \in (Len(sent) + 1)..Len(sent') : ~PutReply(reqLog', sent'[k]) ]_vars
    /\ [](client.stage >= 2
            => \A k \in 1..Len(sent) :
                  ~(sent[k].msg.type = "ERROR"
                      /\ IsRequest(sent[k].req, {"PUT_BEGIN", "PUT_CHUNK"})))

\* C40: authentication is monotone: no step of the session takes authed from
\* TRUE to FALSE; an AUTH with wrong or missing credentials handled by an
\* authenticated session writes exactly one AUTH_ERROR{AUTH_INVALID_CREDENTIALS}
\* and leaves authed TRUE; and no command handled by an authenticated session,
\* whatever AUTH failed before it, is refused with UNAUTHORIZED.
C40_AuthMonotone ==
    /\ [][authed => authed']_vars
    /\ [][ (/\ HandlesOne /\ authed /\ IsCommand(Handled) /\ Handled.type = "AUTH"
            /\ ~(/\ {"username", "password"} \subseteq Handled.has
                 /\ Handled.username = Credentials.username
                 /\ Handled.password = Credentials.password))
           => /\ authed'
              /\ WritesOnly([type |-> "AUTH_ERROR", error |-> "Invalid credentials",
                             errorCode |-> "AUTH_INVALID_CREDENTIALS",
                             message |-> "Identifiants invalides"]) ]_vars
    /\ [][ (HandlesOne /\ authed /\ IsCommand(Handled))
           => \A k \in (Len(sent) + 1)..Len(sent') :
                 sent'[k].msg.type = "ERROR" => sent'[k].msg.errorCode # "UNAUTHORIZED" ]_vars

\* an authenticated session refused a second AUTH with a wrong password and
\* then answered INFO with INFO_RESULT, still authenticated
C40_Witness ==
    /\ authed /\ Len(reqLog) = 3
    /\ ~reqLog[1].authed /\ reqLog[1].msg = Auth("user", "pass")
    /\ IsRequest(2, {"AUTH"}) /\ reqLog[2].msg = Auth("user", "wrong")
    /\ IsRequest(3, {"INFO"})
    /\ Len(Replies(2)) = 1 /\ Replies(2)[1].msg.type = "AUTH_ERROR"
    /\ Len(Replies(3)) = 1 /\ Replies(3)[1].msg.type = "INFO_RESULT"

====
